---- MODULE Spec2Model ----
(***************************************************************************)
(* Booking lifecycle of kx-scheduler-services: the HTTP booking service    *)
(* (BookingsService.create / delete), the event worker                     *)
(* (handleBookingRequested / handleConsultationRequested) and the          *)
(* attendance service, running as concurrent short-lived tasks against a   *)
(* shared key-value store with conditional multi-item transactions.        *)
(*                                                                         *)
(* Every `await docClient.send(...)` / `await eventBridge.send(...)` of a  *)
(* handler is one atomic step of that handler's task; the code between two *)
(* awaits runs with the step that follows the first of them.  A read       *)
(* returns the store as it is at the moment of the read.                   *)
(***************************************************************************)
EXTENDS Integers, Sequences, FiniteSets, TLC

\* ------------------------------------------------------------------ bounds
\* Number of request tasks (HTTP or event), each handling one request.
MaxReq == 2
\* Number of bookings already stored (CONFIRMED, counted) when the run starts.
MaxSeed == 2
\* Largest capacity value a schedule or an override carries in the model.
MaxCap == 2

\* ------------------------------------------------------------- value sets
None == "none"
NoItem == [absent |-> TRUE]

\* A string that takes part in a composite key is kept as the sequence of its
\* '#'-separated parts: "a#b" is <<"a", "b">>, `${x}#${y}` is x \o y, and
\* split('#') gives the parts.  tenantId is such a string: the tenant ids are
\* "t1" and "t1#sched_x"; the empty string is the absent (falsy) tenantId.
T1 == <<"t1">>
T2 == <<"t1", "sched_x">>
NoTenant == <<>>

Tenants == {T1, T2}
Subjects == {"u1", "u2"}
ScheduleIds == {"sched_x", "sched_y"}
Dates == {"d1", "d2"}

Reqs == 1 .. MaxReq
Seeds == 1 .. MaxSeed

\* generateSessionId: `${scheduleId}#${date}`.
generateSessionId(scheduleId, date) == <<scheduleId, date>>

\* parseSessionId: split on '#', first part scheduleId, second part date; any
\* further part is dropped.
parseSessionId(sessionId) == [scheduleId |-> sessionId[1], date |-> sessionId[2]]

\* The session ids of the schedules, and a session id sent by a client with a
\* third part: "sched_x#sched_y#d1".
SA == <<"sched_x", "sched_y", "d1">>
SB == generateSessionId("sched_y", "d1")

SessionIds == {generateSessionId(s, d) : s \in ScheduleIds, d \in Dates} \cup {SA}

\* generateId('book'): `book_${Date.now()}_${random}`, one per call.  Task r
\* calls it at most once; the seeded bookings carry ids made by earlier tasks.
generateId(r) == MaxSeed + r

SeedBookingId(i) == i

BookingIds == 1 .. (MaxSeed + MaxReq)

\* An absent (undefined) baseCapacity / overrideCapacity.
NoCap == -1

\* Capacity values: a natural number, or NoCap.
Capacities == (0 .. MaxCap) \cup {NoCap}

NoSession == <<None, None>>
NoBooking == 0

\* The caller's position at a check-in is its distance from the centre of the
\* session's location, in decimetres; NoGps when the body has no lat / lng,
\* InvalidGps when they are not coordinates.
NoGps == -1
InvalidGps == -2

\* A location item without checkInRadiusMeters.
NoRadius == -1

\* Booking pk: `${tenantId}#${sessionId}`.
BookingPk(tenantId, sessionId) == tenantId \o sessionId

\* Exception pk: `${tenantId}#${scheduleId}`.
ExceptionPk(tenantId, scheduleId) == tenantId \o <<scheduleId>>

\* Keys (pk, occurrenceDate) of the exceptions table.
ExceptionKeys ==
    { <<ExceptionPk(t, s), d>> : t \in Tenants, s \in ScheduleIds, d \in Dates }

\* ------------------------------------------------------------------ state
VARIABLES
    schedules,    \* SCHEDULES_TABLE: [tenantId, scheduleId] -> item
    exceptions,   \* SCHEDULE_EXCEPTIONS_TABLE: <<pk, occurrenceDate>> -> item
    summaries,    \* SESSION_SUMMARIES_TABLE: [tenantId, sessionId] -> item
    bookings,     \* BOOKINGS_TABLE: bookingId -> item (pk is a field)
    attendance,   \* ATTENDANCE_TABLE: set of items, one per (pk, bookingId)
    bus,          \* per task, the PutEvents calls it made on the event bus
    req           \* per task: the request, its position and its local variables

vars == <<schedules, exceptions, summaries, bookings, attendance, bus, req>>

Schedule(cap, occurs) == [baseCapacity |-> cap, occurs |-> occurs]

Exception(type, cap) == [type |-> type, overrideCapacity |-> cap]

Summary(count, cap) == [bookedCount |-> count, capacity |-> cap]

Booking(tenantId, sessionId, subjectId, status, source) ==
    [tenantId |-> tenantId, sessionId |-> sessionId, subjectId |-> subjectId,
     status |-> status, source |-> source, pk |-> BookingPk(tenantId, sessionId)]

Result(code, msg) == [code |-> code, msg |-> msg]

NoResult == Result(0, None)

\* A result event handed to emitBookingResult / emitAppointmentResult.
Emission(status, bookingId, error) ==
    [status |-> status, bookingId |-> bookingId, error |-> error]

NoEmit == Emission(None, NoBooking, None)

IdleReq ==
    [kind |-> "idle", pc |-> "idle", tenantId |-> NoTenant, sessionId |-> NoSession,
     subjectId |-> None, caller |-> None, bookingId |-> NoBooking,
     sched |-> NoItem, capacity |-> NoCap, emit |-> NoEmit, gps |-> NoGps,
     diff |-> 0, location |-> NoItem,
     status |-> None, fault |-> FALSE, sequential |-> FALSE, result |-> NoResult]

\* The sessions of tenant t1's schedule sched_x: d1 is a plain occurrence, d2
\* is one of: cancelled by an exception, overridden (with or without an
\* overrideCapacity), or not an occurrence of the rule at all.
D2Scenarios ==
    { [exc |-> Exception("CANCELLED", NoCap), occurs |-> TRUE],
      [exc |-> Exception("OVERRIDE", 0), occurs |-> TRUE],
      [exc |-> Exception("OVERRIDE", 1), occurs |-> TRUE],
      [exc |-> Exception("OVERRIDE", NoCap), occurs |-> TRUE],
      [exc |-> NoItem, occurs |-> FALSE] }

S1 == generateSessionId("sched_x", "d1")
S2 == generateSessionId("sched_x", "d2")

\* Seeded bookings: n CONFIRMED bookings of distinct subjects on session d1 of
\* tenant t1, made by earlier creates (so counted in the summary).
SeedSubject(i) == IF i = 1 THEN "u1" ELSE "u2"

Init ==
    \E cap \in Capacities, sc \in D2Scenarios, n \in 0 .. MaxSeed :
        /\ n <= Cardinality(Subjects)
        /\ cap = NoCap \/ n <= cap
        /\ n > 0 => sc.exc # NoItem /\ sc.exc.type = "CANCELLED"
        /\ schedules = [t \in Tenants, s \in ScheduleIds |->
                IF t = T1 /\ s = "sched_x"
                THEN Schedule(cap, IF sc.occurs THEN {"d1", "d2"} ELSE {"d1"})
                ELSE NoItem]
        /\ exceptions = [k \in ExceptionKeys |->
                IF k = <<ExceptionPk(T1, "sched_x"), "d2">> THEN sc.exc ELSE NoItem]
        /\ summaries = [t \in Tenants, s \in SessionIds |->
                IF t = T1 /\ s = S1 /\ n > 0
                THEN Summary(n, cap)
                ELSE NoItem]
        /\ bookings = [b \in BookingIds |->
                IF b <= n
                THEN Booking(T1, S1, SeedSubject(b), "CONFIRMED", "api")
                ELSE NoItem]
        /\ attendance = {}
        /\ bus = [r \in Reqs |-> <<>>]
        /\ req = [r \in Reqs |-> IdleReq]

\* --------------------------------------------------------------- helpers
HttpKinds == {"create", "cancel", "checkin", "override"}
AttendanceKinds == {"checkin", "override"}
EventKinds == {"booking_requested", "consultation_requested"}
CreateKinds == {"create"} \cup EventKinds

\* Tasks are numbered in the order in which their requests arrive.
CanStart(r) ==
    /\ req[r].kind = "idle"
    /\ IF r = 1 THEN TRUE ELSE req[r - 1].kind # "idle"

\* The store holds the schedules of one tenant (Init) or of both
\* (InitTenants).
TwoTenants == schedules[T2, "sched_y"] # NoItem

\* With one tenant's schedules stored, every create under the other tenant
\* takes the same path, so one session and one subject stand for all of them.
\* With both stored, the requests are those for a session of the tenant's
\* schedule, and under "t1" also for the session id with a third part.
OtherTenantInput(tenantId, sessionId, subjectId) ==
    IF ~TwoTenants
    THEN /\ sessionId \in {S1, S2, NoSession}
         /\ tenantId = T2 => sessionId = S1 /\ subjectId \in {"u1", None}
    ELSE /\ tenantId = T1 => sessionId \in {S1, SA}
         /\ tenantId = T2 => sessionId = SB
         /\ tenantId = NoTenant => sessionId = SB /\ subjectId = "u1"

\* The bookings a cancel under the tenant without schedules asks for.
OtherTenantBooking(tenantId, bookingId) ==
    (~TwoTenants /\ tenantId = T2) => bookingId = SeedBookingId(1)

\* handleConsultationRequested repeats handleBookingRequested statement for
\* statement (leadId for subjectId); its events are drawn for one session and
\* one lead, the booking_requested events for all of them.
ConsultationInput(sessionId, leadId) ==
    sessionId \in {S1, NoSession} /\ leadId \in {"u2", None}

\* History: the request of task r arrives when no other request is in flight.
Quiet(r) == \A o \in Reqs \ {r} : req[o].pc \in {"idle", "done"}

\* A new request of the given kind, as it arrives at task r.
NewReq(r, kind) == [IdleReq EXCEPT !.kind = kind, !.sequential = Quiet(r)]

\* A handler returns an HTTP response; the time read and the location loaded
\* by a check-in that the response reports stay on record with it.
RespondKeeping(r, rec, code, msg) ==
    req' = [req EXCEPT ![r] = [rec EXCEPT !.pc = "done", !.sched = NoItem,
                                          !.capacity = NoCap, !.caller = None,
                                          !.emit = NoEmit,
                                          !.status = None,
                                          !.result = Result(code, msg)]]

\* A handler returns an HTTP response (or, for the worker, returns normally).
Respond(r, rec, code, msg) ==
    RespondKeeping(r, [rec EXCEPT !.gps = NoGps, !.diff = 0, !.location = NoItem],
                   code, msg)

\* The worker calls emitBookingResult / emitAppointmentResult and awaits it.
CallEmit(r, rec, status, bookingId, error) ==
    req' = [req EXCEPT ![r] = [rec EXCEPT !.pc = "emit", !.sched = NoItem,
                                          !.capacity = NoCap,
                                          !.bookingId = bookingId,
                                          !.emit = Emission(status, bookingId, error)]]

\* getSubjectId: claims.sub, else the X-Subject-Id header, else null.
getSubjectId(claimSub, headerSub) ==
    IF claimSub # None THEN claimSub ELSE headerSub

\* `a || b` on strings: a when it is non-empty, else b.
OrElse(a, b) == IF a # None THEN a ELSE b

\* Get from the exceptions table by Key { pk: `${tenantId}#${scheduleId}`,
\* occurrenceDate: date }.
GetException(tenantId, scheduleId, date) ==
    LET key == <<ExceptionPk(tenantId, scheduleId), date>>
    IN  IF key \in DOMAIN exceptions THEN exceptions[key] ELSE NoItem

\* exception?.overrideCapacity ?? schedule.baseCapacity
ResolvedCapacity(exception, schedule) ==
    IF exception # NoItem /\ exception.overrideCapacity # NoCap
    THEN exception.overrideCapacity
    ELSE schedule.baseCapacity

\* generateSessions(schedule, {range around date, exceptions}).find(sessionId):
\* the occurrences of the schedule's rule in the window around the date, less
\* the cancelled one; TRUE when the session with this id is among them.
Materializes(schedule, exception, date) ==
    /\ date \in schedule.occurs
    /\ ~(exception # NoItem /\ exception.type = "CANCELLED")

\* A duplicate query that only sees the bookings made by the event worker.
ExistingBookingsOfSource(tenantId, sessionId, subjectId) ==
    { b \in BookingIds :
        /\ bookings[b] # NoItem
        /\ bookings[b].pk = BookingPk(tenantId, sessionId)
        /\ bookings[b].subjectId = subjectId
        /\ bookings[b].source = "agent"
        /\ bookings[b].status # "CANCELLED" }

\* findExistingBooking: Query pk = tenantId#sessionId, filter subjectId and
\* status <> CANCELLED.  The matching items.
ExistingBookings(tenantId, sessionId, subjectId) ==
    { b \in BookingIds :
        /\ bookings[b] # NoItem
        /\ bookings[b].pk = BookingPk(tenantId, sessionId)
        /\ bookings[b].subjectId = subjectId
        /\ bookings[b].status # "CANCELLED" }

\* findBookingById: Query index byCreatedAt, tenantId = :tenantId, filter
\* bookingId = :bookingId.  The matching items.
BookingsById(tenantId, bookingId) ==
    { b \in BookingIds :
        /\ bookings[b] # NoItem
        /\ bookings[b].tenantId = tenantId
        /\ b = bookingId }

\* ------------------------------------------------- BookingsService.create
\* POST /scheduling/bookings up to its first await: the request's fields are
\* validated and the subject is resolved.  `caller` keeps, until the first
\* store call, the subject the request's claim or header names.
HttpCreateStart(r) ==
    /\ CanStart(r)
    /\ \E tenantId \in Tenants \cup {NoTenant}, sessionId \in SessionIds \cup {NoSession},
          bodySubject \in Subjects \cup {None},
          claimSub \in Subjects \cup {None}, headerSub \in Subjects \cup {None} :
        LET rec == NewReq(r, "create")
            subjectId == OrElse(bodySubject, getSubjectId(claimSub, headerSub))
        IN  /\ OtherTenantInput(tenantId, sessionId, subjectId)
            /\ IF tenantId = NoTenant
               THEN Respond(r, rec, 400, "Missing tenantId")
               ELSE IF sessionId = NoSession
               THEN Respond(r, rec, 400, "Missing sessionId")
               ELSE IF subjectId = None
               THEN Respond(r, rec, 400, "Missing subjectId")
               ELSE req' = [req EXCEPT ![r] =
                    [rec EXCEPT !.pc = "schedule", !.tenantId = tenantId,
                                !.sessionId = sessionId, !.subjectId = subjectId,
                                !.caller = getSubjectId(claimSub, headerSub)]]
    /\ UNCHANGED <<schedules, exceptions, summaries, bookings, attendance, bus>>

\* getSessionInfo, first read: Get the schedule.  Shared by the HTTP create and
\* the two worker handlers (same code in both files).
ReadSchedule(r) ==
    /\ req[r].kind \in CreateKinds
    /\ req[r].pc = "schedule"
    /\ LET rec == req[r]
           id == parseSessionId(rec.sessionId)
           schedule == schedules[rec.tenantId, id.scheduleId]
       IN  IF schedule = NoItem
           THEN IF rec.kind = "create"
                THEN Respond(r, rec, 404, "Session not found")
                ELSE CallEmit(r, rec, "FAILED", NoBooking,
                              "Session not found or has been cancelled")
           ELSE req' = [req EXCEPT ![r] = [rec EXCEPT !.pc = "exception",
                                                       !.caller = None,
                                                       !.sched = schedule]]
    /\ UNCHANGED <<schedules, exceptions, summaries, bookings, attendance, bus>>

\* A session lookup of the HTTP create that does not look at the exception's
\* type.
ReadExceptionIgnoringType(r) ==
    /\ req[r].kind \in CreateKinds
    /\ req[r].pc = "exception"
    /\ LET rec == req[r]
           id == parseSessionId(rec.sessionId)
           exception == GetException(rec.tenantId, id.scheduleId, id.date)
           cancelled == exception # NoItem /\ exception.type = "CANCELLED"
       IN  IF rec.kind # "create"
              /\ (cancelled \/ ~Materializes(rec.sched, exception, id.date))
           THEN CallEmit(r, rec, "FAILED", NoBooking,
                         "Session not found or has been cancelled")
           ELSE req' = [req EXCEPT ![r] =
                   [rec EXCEPT !.pc = "existing", !.sched = NoItem,
                               !.capacity = ResolvedCapacity(exception, rec.sched)]]
    /\ UNCHANGED <<schedules, exceptions, summaries, bookings, attendance, bus>>

\* getSessionInfo, second read: Get the exception of the date; the worker also
\* materializes the session.  Resolves the capacity.
ReadException(r) ==
    /\ req[r].kind \in CreateKinds
    /\ req[r].pc = "exception"
    /\ LET rec == req[r]
           id == parseSessionId(rec.sessionId)
           exception == GetException(rec.tenantId, id.scheduleId, id.date)
           cancelled == exception # NoItem /\ exception.type = "CANCELLED"
       IN  IF rec.kind = "create"
           THEN IF cancelled
                THEN Respond(r, rec, 404, "Session not found")
                ELSE req' = [req EXCEPT ![r] =
                        [rec EXCEPT !.pc = "existing", !.sched = NoItem,
                                    !.capacity = ResolvedCapacity(exception, rec.sched)]]
           ELSE IF cancelled \/ ~Materializes(rec.sched, exception, id.date)
                THEN CallEmit(r, rec, "FAILED", NoBooking,
                              "Session not found or has been cancelled")
                ELSE req' = [req EXCEPT ![r] =
                        [rec EXCEPT !.pc = "existing", !.sched = NoItem,
                                    !.capacity = ResolvedCapacity(exception, rec.sched)]]
    /\ UNCHANGED <<schedules, exceptions, summaries, bookings, attendance, bus>>

\* A duplicate check without the idempotent short-circuit of the worker.
FindExistingNoShortCircuit(r) ==
    /\ req[r].kind \in CreateKinds
    /\ req[r].pc = "existing"
    /\ LET rec == req[r]
           items == ExistingBookings(rec.tenantId, rec.sessionId, rec.subjectId)
       IN  IF items # {} /\ rec.kind = "create"
           THEN Respond(r, rec, 409,
                        "Already have a confirmed booking for this session")
           ELSE req' = [req EXCEPT ![r] = [rec EXCEPT !.pc = "transact",
                                                       !.bookingId = generateId(r)]]
    /\ UNCHANGED <<schedules, exceptions, summaries, bookings, attendance, bus>>

\* Step 2: findExistingBooking and the duplicate check; then the booking id is
\* generated and the transaction is built.
FindExisting(r) ==
    /\ req[r].kind \in CreateKinds
    /\ req[r].pc = "existing"
    /\ LET rec == req[r]
           items == ExistingBookings(rec.tenantId, rec.sessionId, rec.subjectId)
       IN  IF items = {}
           THEN req' = [req EXCEPT ![r] = [rec EXCEPT !.pc = "transact",
                                                       !.bookingId = generateId(r)]]
           ELSE \E existing \in items :   \* result.Items[0]
                IF bookings[existing].status = "CONFIRMED"
                THEN IF rec.kind = "create"
                     THEN Respond(r, rec, 409,
                                  "Already have a confirmed booking for this session")
                     ELSE CallEmit(r, rec, "CONFIRMED", existing, None)
                ELSE req' = [req EXCEPT ![r] = [rec EXCEPT !.pc = "transact",
                                                            !.bookingId = generateId(r)]]
    /\ UNCHANGED <<schedules, exceptions, summaries, bookings, attendance, bus>>

\* ----------------------------------------------------------- transactions
\* Put booking, ConditionExpression
\* 'attribute_not_exists(pk) AND attribute_not_exists(bookingId)'.
PutCondition(bookingId) == bookings[bookingId] = NoItem

\* A reserve condition that still admits a session whose bookedCount equals
\* its capacity.
ReserveConditionInclusive(summary, capacity) ==
    \/ capacity = NoCap
    \/ summary = NoItem
    \/ summary.bookedCount <= capacity

\* The summary Update of a create.  With a capacity: ConditionExpression
\* 'attribute_not_exists(bookedCount) OR (bookedCount < :capacity)'; without
\* one the Update carries no condition.
ReserveCondition(summary, capacity) ==
    \/ capacity = NoCap
    \/ summary = NoItem
    \/ summary.bookedCount < capacity

\* SET bookedCount = if_not_exists(bookedCount, :zero) + :one [, #cap = :capacity]
ReserveUpdate(summary, capacity) ==
    Summary((IF summary = NoItem THEN 0 ELSE summary.bookedCount) + 1,
            IF capacity # NoCap THEN capacity
            ELSE IF summary = NoItem THEN NoCap ELSE summary.capacity)

\* TransactWriteCommand of a create: both writes or neither.
CreateCommits(rec) ==
    /\ PutCondition(rec.bookingId)
    /\ ReserveCondition(summaries[rec.tenantId, rec.sessionId], rec.capacity)

\* The writes of a create sent as separate calls, the second one lost.
CreateWritesBookingOnly(rec, source) ==
    /\ bookings' = [bookings EXCEPT ![rec.bookingId] =
            Booking(rec.tenantId, rec.sessionId, rec.subjectId, "CONFIRMED", source)]
    /\ summaries' = summaries

CreateWrites(rec, source) ==
    /\ bookings' = [bookings EXCEPT ![rec.bookingId] =
            Booking(rec.tenantId, rec.sessionId, rec.subjectId, "CONFIRMED", source)]
    /\ summaries' = [summaries EXCEPT ![rec.tenantId, rec.sessionId] =
            ReserveUpdate(@, rec.capacity)]

\* Step 3 of BookingsService.create: send the transaction; 201 on success, 409
\* on TransactionCanceledException.
HttpTransact(r) ==
    /\ req[r].kind = "create"
    /\ req[r].pc = "transact"
    /\ LET rec == req[r]
       IN  IF CreateCommits(rec)
           THEN /\ CreateWrites(rec, "api")
                /\ Respond(r, rec, 201, "CONFIRMED")
           ELSE /\ Respond(r, [rec EXCEPT !.bookingId = NoBooking],
                           409, "Session is at capacity")
                /\ UNCHANGED <<bookings, summaries>>
    /\ UNCHANGED <<schedules, exceptions, attendance, bus>>

\* Step 3 of handleBookingRequested / handleConsultationRequested: send the
\* transaction; on success emit the confirmation, on an exception the catch
\* block emits the failure.
EventTransact(r) ==
    /\ req[r].kind \in EventKinds
    /\ req[r].pc = "transact"
    /\ LET rec == req[r]
       IN  IF CreateCommits(rec)
           THEN /\ CreateWrites(rec, "agent")
                /\ CallEmit(r, rec, "CONFIRMED", rec.bookingId, None)
           ELSE /\ CallEmit(r, rec, "FAILED", NoBooking, "Session is at capacity")
                /\ UNCHANGED <<bookings, summaries>>
    /\ UNCHANGED <<schedules, exceptions, attendance, bus>>

\* ------------------------------------------------------------ event worker
\* handler -> handleBookingRequested / handleConsultationRequested up to the
\* first await.  `detail` is the event's detail: absent, or an object whose
\* tenantId, schedulingData.sessionId and subjectId (leadId) may be missing.
\* Destructuring an absent detail throws before the try block.
EventStart(r) ==
    /\ CanStart(r)
    /\ \E kind \in EventKinds, hasDetail \in BOOLEAN,
          tenantId \in Tenants \cup {NoTenant}, sessionId \in SessionIds \cup {NoSession},
          subjectId \in Subjects \cup {None} :
        LET rec == NewReq(r, kind)
        IN  /\ OtherTenantInput(tenantId, sessionId, subjectId)
            /\ kind = "consultation_requested" => ConsultationInput(sessionId, subjectId)
            /\ IF ~hasDetail
               THEN Respond(r, rec, 0, "thrown")
               ELSE IF tenantId = NoTenant \/ sessionId = NoSession \/ subjectId = None
               THEN CallEmit(r, rec, "FAILED", NoBooking, "Missing required fields")
               ELSE req' = [req EXCEPT ![r] =
                    [rec EXCEPT !.pc = "schedule", !.tenantId = tenantId,
                                !.sessionId = sessionId, !.subjectId = subjectId]]
    /\ UNCHANGED <<schedules, exceptions, summaries, bookings, attendance, bus>>

\* detailType of emitBookingResult / emitAppointmentResult.
DetailType(kind, status) ==
    IF kind = "booking_requested"
    THEN IF status = "CONFIRMED" THEN "scheduling.booking_confirmed"
                                 ELSE "scheduling.booking_failed"
    ELSE IF status = "CONFIRMED" THEN "appointment.scheduled"
                                 ELSE "appointment.failed"

\* emitBookingResult / emitAppointmentResult: one PutEvents call; a failure of
\* the call is caught and logged.  Then the handler returns.
Emit(r) ==
    /\ req[r].kind \in EventKinds
    /\ req[r].pc = "emit"
    /\ \E delivered \in BOOLEAN :
        bus' = [bus EXCEPT ![r] = Append(@,
                    [detailType |-> DetailType(req[r].kind, req[r].emit.status),
                     status |-> req[r].emit.status,
                     bookingId |-> req[r].emit.bookingId,
                     error |-> req[r].emit.error,
                     delivered |-> delivered])]
    /\ Respond(r, req[r], 0, "returned")
    /\ UNCHANGED <<schedules, exceptions, summaries, bookings, attendance>>

\* ------------------------------------------------- BookingsService.delete
\* DELETE /scheduling/bookings up to its first await.
CancelStart(r) ==
    /\ CanStart(r)
    /\ \E tenantId \in Tenants \cup {NoTenant}, bookingId \in BookingIds \cup {NoBooking},
          claimSub \in Subjects \cup {None}, headerSub \in Subjects \cup {None} :
        LET rec == NewReq(r, "cancel")
        IN  /\ OtherTenantBooking(tenantId, bookingId)
            /\ IF tenantId = NoTenant \/ bookingId = NoBooking
               THEN Respond(r, rec, 400, "Missing tenantId or bookingId")
               ELSE req' = [req EXCEPT ![r] =
                    [rec EXCEPT !.pc = "find", !.tenantId = tenantId,
                                !.bookingId = bookingId,
                                !.caller = getSubjectId(claimSub, headerSub)]]
    /\ UNCHANGED <<schedules, exceptions, summaries, bookings, attendance, bus>>

\* A cancel that tests the status before the ownership.
CancelFindStatusFirst(r) ==
    /\ req[r].kind = "cancel"
    /\ req[r].pc = "find"
    /\ LET rec == req[r]
           items == BookingsById(rec.tenantId, rec.bookingId)
       IN  IF items = {}
           THEN Respond(r, rec, 404, "Booking not found")
           ELSE \E b \in items :
                IF bookings[b].status = "CANCELLED"
                THEN Respond(r, rec, 400, "Already cancelled")
                ELSE IF rec.caller # None /\ bookings[b].subjectId # rec.caller
                THEN Respond(r, rec, 403, "Not authorized")
                ELSE req' = [req EXCEPT ![r] =
                        [rec EXCEPT !.pc = "transact", !.caller = None,
                                    !.sessionId = bookings[b].sessionId]]
    /\ UNCHANGED <<schedules, exceptions, summaries, bookings, attendance, bus>>

\* findBookingById, then the ownership and status checks on the item read.
CancelFind(r) ==
    /\ req[r].kind = "cancel"
    /\ req[r].pc = "find"
    /\ LET rec == req[r]
           items == BookingsById(rec.tenantId, rec.bookingId)
       IN  IF items = {}
           THEN Respond(r, rec, 404, "Booking not found")
           ELSE \E b \in items :   \* result.Items[0]
                IF rec.caller # None /\ bookings[b].subjectId # rec.caller
                THEN Respond(r, rec, 403, "Not authorized")
                ELSE IF bookings[b].status = "CANCELLED"
                THEN Respond(r, rec, 400, "Already cancelled")
                ELSE req' = [req EXCEPT ![r] =
                        [rec EXCEPT !.pc = "transact", !.caller = None,
                                    !.sessionId = bookings[b].sessionId]]
    /\ UNCHANGED <<schedules, exceptions, summaries, bookings, attendance, bus>>

\* A summary Update whose only condition is that the item exists.
ReleaseConditionUnguarded(summary) == summary # NoItem

\* The summary Update of a cancel: ConditionExpression 'bookedCount > :zero'.
ReleaseCondition(summary) ==
    /\ summary # NoItem
    /\ summary.bookedCount > 0

\* SET bookedCount = bookedCount - :one
ReleaseUpdate(summary) == [summary EXCEPT !.bookedCount = @ - 1]

\* A cancel Update that sets a status other than CANCELLED.
CancelUpdateCompletes(booking) == [booking EXCEPT !.status = "COMPLETED"]

\* The booking Update of a cancel: SET #status = :cancelled, cancelledAt = :now,
\* with no ConditionExpression.
CancelUpdate(booking) == [booking EXCEPT !.status = "CANCELLED"]

\* The TransactWriteCommand of a cancel and the response.  A cancelled
\* transaction is not caught apart: it surfaces as 500 with the error message.
CancelTransact(r) ==
    /\ req[r].kind = "cancel"
    /\ req[r].pc = "transact"
    /\ LET rec == req[r]
       IN  IF ReleaseCondition(summaries[rec.tenantId, rec.sessionId])
           THEN /\ bookings' = [bookings EXCEPT ![rec.bookingId] = CancelUpdate(@)]
                /\ summaries' = [summaries EXCEPT ![rec.tenantId, rec.sessionId] =
                        ReleaseUpdate(@)]
                /\ Respond(r, rec, 200, "cancelled")
           ELSE /\ Respond(r, rec, 500, "Transaction cancelled")
                /\ UNCHANGED <<bookings, summaries>>
    /\ UNCHANGED <<schedules, exceptions, attendance, bus>>

\* ------------------------------------------------ AttendanceService.create
\* ATTENDANCE_TABLE item; pk is `${tenantId}#${sessionId}`, sort key bookingId.
AttendanceRecord(tenantId, sessionId, bookingId, subjectId, status, method) ==
    [pk |-> BookingPk(tenantId, sessionId), tenantId |-> tenantId,
     sessionId |-> sessionId, bookingId |-> bookingId, subjectId |-> subjectId,
     status |-> status, checkInMethod |-> method]

\* getAttendance: Get by key (pk, bookingId).  The matching items.
getAttendance(tenantId, sessionId, bookingId) ==
    { a \in attendance : a.pk = BookingPk(tenantId, sessionId) /\ a.bookingId = bookingId }

\* Put into ATTENDANCE_TABLE: the item replaces the one with the same key.
PutAttendance(item) ==
    attendance' = { a \in attendance : ~(a.pk = item.pk /\ a.bookingId = item.bookingId) }
                  \cup {item}

\* validateCheckInTime with the window applied to the rounded minutes.
validateCheckInTimeRounded(diff) ==
    [valid |-> (diff + 30) \div 60 >= -15 /\ (diff + 30) \div 60 <= 15,
     minutesFromStart |-> (diff + 30) \div 60,
     message |-> IF (diff + 30) \div 60 < -15 THEN "Too early to check in"
                 ELSE IF (diff + 30) \div 60 > 15 THEN "Too late to check in"
                 ELSE "Check-in time valid"]

\* validateCheckInTime with the default windows, on the difference (seconds)
\* between the check-in time and the session start: valid iff the unrounded
\* difference lies in [-15 min, +15 min]; minutesFromStart is Math.round of the
\* difference in minutes.
validateCheckInTime(diff) ==
    [valid |-> diff >= -(15 * 60) /\ diff <= 15 * 60,
     minutesFromStart |-> (diff + 30) \div 60,
     message |-> IF diff < -(15 * 60) THEN "Too early to check in"
                 ELSE IF diff > 15 * 60 THEN "Too late to check in"
                 ELSE "Check-in time valid"]

\* Differences (seconds) between `new Date()` and session.start at check-in.
CheckInOffsets == {-901, -900, 0, 20, 30, 900, 901}

DEFAULT_CHECK_IN_RADIUS_METERS == 100

\* A LOCATIONS_TABLE item: with or without lat / lng, with or without
\* checkInRadiusMeters.
Location(coords, radius) == [coords |-> coords, checkInRadiusMeters |-> radius]

\* What getLocation may return for the session's locationId: no item, an item
\* without coordinates, an item with coordinates.
LocationItems == {NoItem, Location(FALSE, NoRadius), Location(TRUE, NoRadius)}

\* Positions a caller sends: none, 200 m away.
Positions == {NoGps, 2000}

\* validateCheckIn with the radius never exceeded.
validateCheckInAnywhere(position, radiusMeters) ==
    [valid |-> TRUE, message |-> "Check-in successful"]

\* validateCheckIn: the coordinates are checked, then the caller's distance
\* (unrounded) is compared with the radius.
validateCheckIn(position, radiusMeters) ==
    IF position = InvalidGps
    THEN [valid |-> FALSE, message |-> "Invalid check-in coordinates"]
    ELSE [valid |-> position <= radiusMeters * 10,
          message |-> IF position <= radiusMeters * 10
                      THEN "Check-in successful" ELSE "Too far from location"]

\* POST /scheduling/attendance up to its first await, for callers at the
\* given positions.
CheckInStartOn(r, positions) ==
    /\ CanStart(r)
    /\ \E tenantId \in Tenants \cup {NoTenant}, bookingId \in BookingIds \cup {NoBooking},
          claimSub \in Subjects \cup {None}, headerSub \in Subjects \cup {None},
          gps \in positions :
        LET rec == NewReq(r, "checkin")
        IN  /\ tenantId = T2 => bookingId = SeedBookingId(1) /\ gps = NoGps
            /\ IF tenantId = NoTenant
               THEN Respond(r, rec, 400, "Missing tenantId")
               ELSE IF bookingId = NoBooking
               THEN Respond(r, rec, 400, "Missing bookingId")
               ELSE req' = [req EXCEPT ![r] =
                    [rec EXCEPT !.pc = "find", !.tenantId = tenantId,
                                !.bookingId = bookingId, !.gps = gps,
                                !.caller = getSubjectId(claimSub, headerSub)]]
    /\ UNCHANGED <<schedules, exceptions, summaries, bookings, attendance, bus>>

CheckInStart(r) == CheckInStartOn(r, Positions)

\* The first step of a check-in without the check of the booking's status.
CheckInFindAnyStatus(r) ==
    /\ req[r].kind = "checkin"
    /\ req[r].pc = "find"
    /\ LET rec == req[r]
           items == BookingsById(rec.tenantId, rec.bookingId)
       IN  IF items = {}
           THEN Respond(r, rec, 404, "Booking not found")
           ELSE \E b \in items :
                IF rec.caller # None /\ bookings[b].subjectId # rec.caller
                THEN Respond(r, rec, 403, "Not authorized")
                ELSE req' = [req EXCEPT ![r] =
                        [rec EXCEPT !.pc = "attended", !.caller = None,
                                    !.sessionId = bookings[b].sessionId,
                                    !.subjectId = bookings[b].subjectId]]
    /\ UNCHANGED <<schedules, exceptions, summaries, bookings, attendance, bus>>

\* 1. findBooking, then the status and ownership checks.
CheckInFind(r) ==
    /\ req[r].kind = "checkin"
    /\ req[r].pc = "find"
    /\ LET rec == req[r]
           items == BookingsById(rec.tenantId, rec.bookingId)
       IN  IF items = {}
           THEN Respond(r, rec, 404, "Booking not found")
           ELSE \E b \in items :   \* result.Items[0]
                IF bookings[b].status # "CONFIRMED"
                THEN Respond(r, rec, 400, "Cannot check in")
                ELSE IF rec.caller # None /\ bookings[b].subjectId # rec.caller
                THEN Respond(r, rec, 403, "Not authorized")
                ELSE req' = [req EXCEPT ![r] =
                        [rec EXCEPT !.pc = "attended", !.caller = None,
                                    !.sessionId = bookings[b].sessionId,
                                    !.subjectId = bookings[b].subjectId]]
    /\ UNCHANGED <<schedules, exceptions, summaries, bookings, attendance, bus>>

\* 2. getAttendance: a record with status PRESENT ends the check-in.
CheckInAttended(r) ==
    /\ req[r].kind = "checkin"
    /\ req[r].pc = "attended"
    /\ LET rec == req[r]
           existing == getAttendance(rec.tenantId, rec.sessionId, rec.bookingId)
       IN  IF \E a \in existing : a.status = "PRESENT"
           THEN Respond(r, rec, 400, "Already checked in")
           ELSE req' = [req EXCEPT ![r] = [rec EXCEPT !.pc = "schedule"]]
    /\ UNCHANGED <<schedules, exceptions, summaries, bookings, attendance, bus>>

\* 3. getSessionInfo, first read: Get the schedule.
CheckInSchedule(r) ==
    /\ req[r].kind = "checkin"
    /\ req[r].pc = "schedule"
    /\ LET rec == req[r]
           id == parseSessionId(rec.sessionId)
           schedule == schedules[rec.tenantId, id.scheduleId]
       IN  IF schedule = NoItem
           THEN Respond(r, rec, 404, "Session not found")
           ELSE req' = [req EXCEPT ![r] = [rec EXCEPT !.pc = "exception",
                                                       !.sched = schedule]]
    /\ UNCHANGED <<schedules, exceptions, summaries, bookings, attendance, bus>>

\* getSessionInfo, second read, and the session materialized from it; 4. the
\* time window; 6. the late check.  `diff` is the time of the check-in
\* relative to the session start, one of the given offsets.
CheckInSessionOn(r, offsets) ==
    /\ req[r].kind = "checkin"
    /\ req[r].pc = "exception"
    /\ LET rec == req[r]
           id == parseSessionId(rec.sessionId)
           exception == GetException(rec.tenantId, id.scheduleId, id.date)
       IN  IF ~Materializes(rec.sched, exception, id.date)
           THEN Respond(r, rec, 404, "Session not found")
           ELSE \E diff \in offsets :
                LET timeValidation == validateCheckInTime(diff)
                    status == IF timeValidation.minutesFromStart > 0
                              THEN "LATE" ELSE "PRESENT"
                IN  IF ~timeValidation.valid
                    THEN RespondKeeping(r, [rec EXCEPT !.diff = diff, !.gps = NoGps],
                                        400, timeValidation.message)
                    ELSE req' = [req EXCEPT ![r] =
                            [rec EXCEPT !.pc = IF rec.gps # NoGps THEN "location"
                                               ELSE "put",
                                        !.sched = NoItem, !.status = status,
                                        !.diff = diff]]
    /\ UNCHANGED <<schedules, exceptions, summaries, bookings, attendance, bus>>

\* A check-in that is too early, on time or late.
Offsets == {-901, 0, 30}

CheckInSession(r) == CheckInSessionOn(r, Offsets)

\* 5. getLocation and the GPS validation, when the caller sent coordinates;
\* the location is one of the given items.
CheckInLocationOn(r, locations) ==
    /\ req[r].kind = "checkin"
    /\ req[r].pc = "location"
    /\ \E location \in locations :
        LET rec == [req[r] EXCEPT !.location = location]
            gpsValidation ==
                validateCheckIn(rec.gps,
                                IF location # NoItem /\ location.checkInRadiusMeters # NoRadius
                                THEN location.checkInRadiusMeters
                                ELSE DEFAULT_CHECK_IN_RADIUS_METERS)
        IN  IF location # NoItem /\ location.coords /\ ~gpsValidation.valid
            THEN RespondKeeping(r, rec, 400, gpsValidation.message)
            ELSE req' = [req EXCEPT ![r] = [rec EXCEPT !.pc = "put"]]
    /\ UNCHANGED <<schedules, exceptions, summaries, bookings, attendance, bus>>

CheckInLocation(r) == CheckInLocationOn(r, LocationItems)

\* 7. Put the attendance record; 201.
CheckInPut(r) ==
    /\ req[r].kind = "checkin"
    /\ req[r].pc = "put"
    /\ LET rec == req[r]
       IN  /\ PutAttendance(AttendanceRecord(rec.tenantId, rec.sessionId,
                    rec.bookingId, rec.subjectId, rec.status,
                    IF rec.gps # NoGps THEN "GPS" ELSE "MANUAL"))
           /\ Respond(r, rec, 201, "checked in")
    /\ UNCHANGED <<schedules, exceptions, summaries, bookings, bus>>

\* ------------------------------------------------ AttendanceService.update
OverrideStatuses == {"PRESENT", "LATE", "NO_SHOW"}

\* PATCH /scheduling/attendance up to its first await.
OverrideStart(r) ==
    /\ CanStart(r)
    /\ \E tenantId \in Tenants \cup {NoTenant}, sessionId \in SessionIds \cup {NoSession},
          bookingId \in BookingIds \cup {NoBooking},
          status \in OverrideStatuses \cup {"EXCUSED", None} :
        LET rec == NewReq(r, "override")
        IN  /\ tenantId = T2 =>
                    sessionId = S1 /\ bookingId = SeedBookingId(1) /\ status = "PRESENT"
            /\ IF tenantId = NoTenant
               THEN Respond(r, rec, 400, "Missing tenantId")
               ELSE IF sessionId = NoSession \/ bookingId = NoBooking \/ status = None
               THEN Respond(r, rec, 400, "Missing sessionId, bookingId, or status")
               ELSE IF status \notin OverrideStatuses
               THEN Respond(r, rec, 400, "Invalid status")
               ELSE req' = [req EXCEPT ![r] =
                    [rec EXCEPT !.pc = "find", !.tenantId = tenantId,
                                !.sessionId = sessionId, !.bookingId = bookingId,
                                !.status = status]]
    /\ UNCHANGED <<schedules, exceptions, summaries, bookings, attendance, bus>>

\* findBooking, for the subject of the record.
OverrideFind(r) ==
    /\ req[r].kind = "override"
    /\ req[r].pc = "find"
    /\ LET rec == req[r]
           items == BookingsById(rec.tenantId, rec.bookingId)
       IN  IF items = {}
           THEN Respond(r, rec, 404, "Booking not found")
           ELSE \E b \in items :   \* result.Items[0]
                req' = [req EXCEPT ![r] =
                        [rec EXCEPT !.pc = "put", !.subjectId = bookings[b].subjectId]]
    /\ UNCHANGED <<schedules, exceptions, summaries, bookings, attendance, bus>>

\* Put the attendance record with checkInMethod OVERRIDE; 200.
OverridePut(r) ==
    /\ req[r].kind = "override"
    /\ req[r].pc = "put"
    /\ LET rec == req[r]
       IN  /\ PutAttendance(AttendanceRecord(rec.tenantId, rec.sessionId,
                    rec.bookingId, rec.subjectId, rec.status, "OVERRIDE"))
           /\ Respond(r, rec, 200, "overridden")
    /\ UNCHANGED <<schedules, exceptions, summaries, bookings, bus>>

\* ------------------------------------------------------------ store faults
StoreSteps == {"schedule", "exception", "existing", "transact", "find",
               "attended", "location", "put"}

\* A store call of task r fails and writes nothing: the store is unavailable
\* (any step), or it cancels the transaction for a conflict with a concurrent
\* one (TransactionCanceledException, transact steps).  The handler's catch
\* blocks turn the exception into the response or the failure event.
StoreFault(r) ==
    /\ req[r].kind \in CreateKinds \cup {"cancel"} \cup AttendanceKinds
    /\ req[r].pc \in StoreSteps
    /\ \E err \in {"StoreUnavailable", "TransactionConflict"} :
        LET rec == [req[r] EXCEPT !.fault = TRUE,
                        !.bookingId = IF @ # NoBooking /\ req[r].kind \in CreateKinds
                                      THEN NoBooking ELSE @]
            cancelled == err = "TransactionConflict"
        IN  /\ cancelled => rec.pc = "transact"
            /\ IF rec.kind \in EventKinds
               THEN CallEmit(r, rec, "FAILED", NoBooking,
                             IF cancelled THEN "Session is at capacity" ELSE err)
               ELSE IF rec.kind = "create" /\ cancelled
               THEN Respond(r, rec, 409, "Session is at capacity")
               ELSE Respond(r, rec, 500,
                            IF cancelled THEN "Transaction cancelled" ELSE err)
    /\ UNCHANGED <<schedules, exceptions, summaries, bookings, attendance, bus>>

\* -------------------------------------------------------------------- spec
Next ==
    \E r \in Reqs :
        \/ HttpCreateStart(r)
        \/ EventStart(r)
        \/ CancelStart(r)
        \/ ReadSchedule(r)
        \/ ReadException(r)
        \/ FindExisting(r)
        \/ HttpTransact(r)
        \/ EventTransact(r)
        \/ Emit(r)
        \/ CancelFind(r)
        \/ CancelTransact(r)
        \/ StoreFault(r)

Spec == Init /\ [][Next]_vars

\* Two tenants whose ids are "t1" and "t1#sched_x", each with one schedule
\* (sched_x, sched_y) that occurs on d1; no exception, no booking yet.
InitTenants ==
    \E capA \in {1, NoCap}, capB \in {1, NoCap} :
        /\ schedules = [t \in Tenants, s \in ScheduleIds |->
                IF t = T1 /\ s = "sched_x" THEN Schedule(capA, {"d1"})
                ELSE IF t = T2 /\ s = "sched_y" THEN Schedule(capB, {"d1"})
                ELSE NoItem]
        /\ exceptions = [k \in ExceptionKeys |-> NoItem]
        /\ summaries = [t \in Tenants, s \in SessionIds |-> NoItem]
        /\ bookings = [b \in BookingIds |-> NoItem]
        /\ attendance = {}
        /\ bus = [r \in Reqs |-> <<>>]
        /\ req = [r \in Reqs |-> IdleReq]

SpecTenants == InitTenants /\ [][Next]_vars

\* The booking operations together with the attendance operations.
NextAttendance ==
    \/ Next
    \/ \E r \in Reqs :
        \/ CheckInStart(r)
        \/ CheckInFind(r)
        \/ CheckInAttended(r)
        \/ CheckInSchedule(r)
        \/ CheckInSession(r)
        \/ CheckInLocation(r)
        \/ CheckInPut(r)
        \/ OverrideStart(r)
        \/ OverrideFind(r)
        \/ OverridePut(r)

\* The stores of Init in which the date d2 is cancelled or not an occurrence.
InitAttendance ==
    /\ Init
    /\ \A k \in ExceptionKeys :
            exceptions[k] = NoItem \/ exceptions[k].type = "CANCELLED"

SpecAttendance == InitAttendance /\ [][NextAttendance]_vars

\* ----------------------------------------------------- check-ins alone
\* Positions and locations around the radius: 100 m, 100.4 m, 150.1 m and
\* coordinates that are none; a location with a radius of 150 m.
FinePositions == {NoGps, InvalidGps, 1000, 1004, 1501}

FineLocations == LocationItems \cup {Location(TRUE, 150)}

CheckInStartFine(r) == CheckInStartOn(r, FinePositions)

CheckInLocationFine(r) == CheckInLocationOn(r, FineLocations)

\* A check-in at any of the offsets around the bounds of the time window.
CheckInSessionFine(r) == CheckInSessionOn(r, CheckInOffsets)

\* Attendance records found when the run starts: none, or one for the first
\* booking, written by an earlier check-in or by an override.
SeededAttendance ==
    { NoItem,
      [status |-> "PRESENT", method |-> "MANUAL"],
      [status |-> "LATE", method |-> "GPS"],
      [status |-> "NO_SHOW", method |-> "OVERRIDE"] }

\* Tenant t1's schedule sched_x with its session d1, on which u1 holds a
\* CONFIRMED booking and u2 a booking that is CONFIRMED or CANCELLED.
InitCheckIn ==
    \E second \in {"CONFIRMED", "CANCELLED"}, seeded \in SeededAttendance :
        /\ schedules = [t \in Tenants, s \in ScheduleIds |->
                IF t = T1 /\ s = "sched_x" THEN Schedule(NoCap, {"d1"}) ELSE NoItem]
        /\ exceptions = [k \in ExceptionKeys |-> NoItem]
        /\ summaries = [t \in Tenants, s \in SessionIds |->
                IF t = T1 /\ s = S1
                THEN Summary(IF second = "CONFIRMED" THEN 2 ELSE 1, NoCap)
                ELSE NoItem]
        /\ bookings = [b \in BookingIds |->
                IF b = 1 THEN Booking(T1, S1, "u1", "CONFIRMED", "api")
                ELSE IF b = 2 THEN Booking(T1, S1, "u2", second, "api")
                ELSE NoItem]
        /\ attendance =
                IF seeded = NoItem THEN {}
                ELSE {AttendanceRecord(T1, S1, SeedBookingId(1), "u1",
                                       seeded.status, seeded.method)}
        /\ bus = [r \in Reqs |-> <<>>]
        /\ req = [r \in Reqs |-> IdleReq]

NextCheckIn ==
    \E r \in Reqs :
        \/ CheckInStartFine(r)
        \/ CheckInFind(r)
        \/ CheckInAttended(r)
        \/ CheckInSchedule(r)
        \/ CheckInSessionFine(r)
        \/ CheckInLocationFine(r)
        \/ CheckInPut(r)
        \/ StoreFault(r)

SpecCheckIn == InitCheckIn /\ [][NextCheckIn]_vars

\* ------------------------------------------------------ GET /sessions
\* A date string 'YYYY-MM-DD' is the number of its day, counted from Monday
\* 2025-01-06 (day 0); the order of the strings is the order of the numbers.
\* A Date is the number of seconds since 2025-01-06T00:00:00Z.
\* Largest day a query window names.
MaxDay == 4

Days == 0 .. MaxDay
\* An absent startDate / endDate query parameter.
NoDate == -1

\* The local dates on which an occurrence can fall into a window over Days.
OccurrenceDays == 0 .. (MaxDay + 1)

SecondsPerHour == 60 * 60
SecondsPerDay == 24 * SecondsPerHour

\* IANA zones without daylight saving time, and their offset from UTC in
\* hours.  America/New_York is at -5 on all the days of the model (January).
Timezones == {"America/Bogota", "UTC", "Asia/Tokyo"}

UtcOffset(timezone) ==
    CASE timezone = "America/Bogota" -> -5
      [] timezone = "America/New_York" -> -5
      [] timezone = "UTC" -> 0
      [] timezone = "Asia/Tokyo" -> 9

\* Date.UTC(year, month, day, hours, minutes, seconds), minutes and seconds
\* given together in seconds; hours may be 24.
DateUTC(date, hours, seconds) == date * SecondsPerDay + hours * SecondsPerHour + seconds

\* Zones with daylight saving time: the instant of the transition of 2025 that
\* the model covers, and the offsets before and after it.  America/New_York
\* goes from -5 to -4 on Sunday 2025-03-09 (day 62) at 07:00Z, Pacific/Auckland
\* from +13 to +12 on 2025-04-05 (day 89) at 14:00Z, which is Sunday
\* 2025-04-06 03:00 there.
DstZones == {"America/New_York", "Pacific/Auckland"}

Transition(timezone) ==
    CASE timezone = "America/New_York" -> [at |-> DateUTC(62, 7, 0), before |-> -5, after |-> -4]
      [] timezone = "Pacific/Auckland" -> [at |-> DateUTC(89, 14, 0), before |-> 13, after |-> 12]

\* The zone's offset from UTC, in hours, at an instant.
UtcOffsetAt(timezone, instant) ==
    IF timezone \in DstZones
    THEN IF instant < Transition(timezone).at
         THEN Transition(timezone).before ELSE Transition(timezone).after
    ELSE UtcOffset(timezone)

\* getUTCFullYear / getUTCMonth / getUTCDate, and getUTCHours.
getUTCDate(d) == d \div SecondsPerDay
getUTCHours(d) == (d % SecondsPerDay) \div SecondsPerHour

\* toLocaleString('en-US', {hour12: false, hour: '2-digit', ...}) writes the
\* hour after midnight as "00" or as "24", depending on the runtime's
\* hour cycle for the locale.
HourCycles == {"h23", "h24"}

\* convertUtcToNaiveLocal: format the instant in the zone, then Date.UTC of
\* the formatted parts.
convertUtcToNaiveLocal(utcDate, timezone, hourCycle) ==
    LET local == utcDate + UtcOffsetAt(timezone, utcDate) * SecondsPerHour
        hours == IF getUTCHours(local) = 0 /\ hourCycle = "h24"
                 THEN 24 ELSE getUTCHours(local)
    IN  DateUTC(getUTCDate(local), hours, local % SecondsPerHour)

\* parseLocalDateTime of a datetime string without zone: the string is parsed
\* as if it were UTC (asUtc), and the zone's offset at that instant is taken
\* off.
parseLocalDateTime(localDateTime, timezone) ==
    localDateTime - UtcOffsetAt(timezone, localDateTime) * SecondsPerHour

\* convertNaiveLocalToUtc: the naive date's UTC parts as a local ISO string,
\* then parseLocalDateTime.
convertNaiveLocalToUtc(naiveDate, timezone) ==
    parseLocalDateTime(DateUTC(getUTCDate(naiveDate), getUTCHours(naiveDate),
                               naiveDate % SecondsPerHour), timezone)

\* BYDAY names; day 0 is a Monday.
Weekday(date) == <<"MO", "TU", "WE", "TH", "FR", "SA", "SU">>[(date % 7) + 1]

\* A schedule item as generateSessions reads it: start is a local wall-clock
\* datetime (date, hours), rrule is FREQ=WEEKLY;BYDAY=byday.
SessionSchedule(scheduleId, timezone, date, hours, isRecurring, byday) ==
    [scheduleId |-> scheduleId, timezone |-> timezone,
     start |-> [date |-> date, hours |-> hours],
     isRecurring |-> isRecurring, byday |-> byday, baseCapacity |-> NoCap]

\* rrulestr(rrule, {dtstart}).between(after, before, true): the instants
\* dtstart + k days on a BYDAY weekday, within [after, before].
between(dtstart, byday, after, before) ==
    { n \in { dtstart + k * SecondsPerDay :
                k \in 0 .. ((before - dtstart) \div SecondsPerDay) } :
        /\ Weekday(getUTCDate(n)) \in byday
        /\ after <= n /\ n <= before }

\* An item of the query on the exceptions table.
ExceptionItem(pk, occurrenceDate, item) ==
    [pk |-> pk, occurrenceDate |-> occurrenceDate, type |-> item.type,
     overrideCapacity |-> item.overrideCapacity]

\* Query pk = `${tenantId}#${scheduleId}` AND occurrenceDate BETWEEN start AND
\* end.
QueryExceptions(tenantId, scheduleId, startDate, endDate) ==
    LET pk == ExceptionPk(tenantId, scheduleId)
    IN  { ExceptionItem(pk, d, exceptions[<<pk, d>>]) :
            d \in { x \in startDate .. endDate :
                        /\ <<pk, x>> \in DOMAIN exceptions
                        /\ exceptions[<<pk, x>>] # NoItem } }

\* exceptionMap.get(dateStr)
exceptionMap(scheduleExceptions, dateStr) ==
    IF \E e \in scheduleExceptions : e.occurrenceDate = dateStr
    THEN CHOOSE e \in scheduleExceptions : e.occurrenceDate = dateStr
    ELSE NoItem

\* A session dated by its start in UTC.
SessionDatedInUtc(schedule, naiveOccurrence, exception) ==
    LET start == convertNaiveLocalToUtc(naiveOccurrence, schedule.timezone)
    IN  [sessionId |-> generateSessionId(schedule.scheduleId, getUTCDate(start)),
         scheduleId |-> schedule.scheduleId,
         date |-> getUTCDate(start),
         start |-> start,
         capacity |-> ResolvedCapacity(exception, schedule),
         bookedCount |-> 0]

\* The session of an occurrence; an OVERRIDE exception with an overrideStart
\* (a local datetime) replaces the start.
Session(schedule, naiveOccurrence, exception) ==
    LET dateStr == getUTCDate(naiveOccurrence)
    IN  [sessionId |-> generateSessionId(schedule.scheduleId, dateStr),
         scheduleId |-> schedule.scheduleId,
         date |-> dateStr,
         start |-> IF /\ exception # NoItem
                      /\ exception.type = "OVERRIDE"
                      /\ "overrideStart" \in DOMAIN exception
                   THEN parseLocalDateTime(exception.overrideStart, schedule.timezone)
                   ELSE convertNaiveLocalToUtc(naiveOccurrence, schedule.timezone),
         capacity |-> ResolvedCapacity(exception, schedule),
         bookedCount |-> 0]

\* generateSessions(schedule, {rangeStart, rangeEnd, exceptions}).
generateSessions(schedule, rangeStart, rangeEnd, scheduleExceptions, hourCycle) ==
    LET naiveDtstart == DateUTC(schedule.start.date, schedule.start.hours, 0)
        startDateUtc == parseLocalDateTime(naiveDtstart, schedule.timezone)
        naiveRangeStart ==
            convertUtcToNaiveLocal(rangeStart, schedule.timezone, hourCycle)
        naiveRangeEnd ==
            convertUtcToNaiveLocal(rangeEnd, schedule.timezone, hourCycle)
        naiveOccurrences ==
            IF ~schedule.isRecurring
            THEN IF startDateUtc >= rangeStart /\ startDateUtc <= rangeEnd
                 THEN {naiveDtstart} ELSE {}
            ELSE between(naiveDtstart, schedule.byday, naiveRangeStart, naiveRangeEnd)
        skipped(n) ==
            LET exception == exceptionMap(scheduleExceptions, getUTCDate(n))
            IN  exception # NoItem /\ exception.type = "CANCELLED"
    IN  { Session(schedule, n, exceptionMap(scheduleExceptions, getUTCDate(n))) :
            n \in { o \in naiveOccurrences : ~skipped(o) } }

\* The schedules of a tenant in the order of the query (by scheduleId).
ScheduleOrder == <<"sched_x", "sched_y">>

QuerySchedules(tenantId) ==
    SelectSeq(ScheduleOrder, LAMBDA s : schedules[tenantId, s] # NoItem)

Position(scheduleId) == CHOOSE i \in 1 .. Len(ScheduleOrder) : ScheduleOrder[i] = scheduleId

\* filtered.sort by start time; the sort is stable, so sessions that start
\* together stay in the order of their schedules.
RECURSIVE SortByStart(_)
SortByStart(sessions) ==
    IF sessions = {} THEN <<>>
    ELSE LET first == CHOOSE a \in sessions : \A b \in sessions :
                        \/ a.start < b.start
                        \/ /\ a.start = b.start
                           /\ Position(a.scheduleId) <= Position(b.scheduleId)
         IN  <<first>> \o SortByStart(sessions \ {first})

\* session.bookedCount = summary.bookedCount for the summaries fetched.
MergeSummaries(tenantId, sessions) ==
    { IF summaries[tenantId, s.sessionId] # NoItem
      THEN [s EXCEPT !.bookedCount = summaries[tenantId, s.sessionId].bookedCount]
      ELSE s : s \in sessions }

\* Largest window the listing accepts, in days.
MaxRangeDays == 90

\* The task of a GET /scheduling/sessions request.
ListReq(tenantId, startDate, endDate, hourCycle) ==
    [kind |-> "list", pc |-> "schedules", tenantId |-> tenantId,
     startDate |-> startDate, endDate |-> endDate, hourCycle |-> hourCycle,
     found |-> <<>>, queried |-> 0, allExceptions |-> {}, allSessions |-> {},
     fault |-> FALSE, result |-> NoResult]

\* success(body) / error(code, message)
ListRespond(r, rec, code, msg, body) ==
    req' = [req EXCEPT ![r] = [rec EXCEPT !.pc = "done", !.allExceptions = {},
                                          !.allSessions = {},
                                          !.result = [code |-> code, msg |-> msg,
                                                      body |-> body]]]

\* rangeDays = (rangeEnd - rangeStart) / (1000 * 60 * 60 * 24) > 90, with
\* a window counted in whole days.
RangeTooLargeInWholeDays(rangeStart, rangeEnd) ==
    (rangeEnd - rangeStart) \div SecondsPerDay > MaxRangeDays

\* rangeDays = (rangeEnd - rangeStart) / (1000 * 60 * 60 * 24) > 90
RangeTooLarge(rangeStart, rangeEnd) ==
    rangeEnd - rangeStart > MaxRangeDays * SecondsPerDay

\* SessionsService.get up to the first store call, for requests whose dates
\* are drawn from the given days.  The listing writes nothing, so a
\* behaviour follows one request.  The requests drawn have both dates or
\* neither, and startDate <= endDate; under a tenant without schedules every
\* window takes the same path, so one window stands for all.
ListStartOn(r, days) ==
    /\ \A o \in Reqs : req[o].kind = "idle"
    /\ \E tenantId \in Tenants \cup {NoTenant}, startDate \in days \cup {NoDate},
          endDate \in days \cup {NoDate}, hourCycle \in HourCycles :
        LET rec == ListReq(tenantId, startDate, endDate, hourCycle)
            rangeStart == DateUTC(startDate, 0, 0)
            rangeEnd == DateUTC(endDate, 23, 59 * 60 + 59)
        IN  /\ (startDate = NoDate) = (endDate = NoDate)
            /\ startDate <= endDate
            /\ tenantId # T1 => startDate = 0 /\ endDate = MaxDay /\ hourCycle = "h23"
            /\ startDate = NoDate => hourCycle = "h23"
            /\ IF tenantId = NoTenant
               THEN ListRespond(r, rec, 400, "Missing tenantId", <<>>)
               ELSE IF startDate = NoDate \/ endDate = NoDate
               THEN ListRespond(r, rec, 400,
                                "Missing required params: startDate and endDate (YYYY-MM-DD)",
                                <<>>)
               ELSE IF RangeTooLarge(rangeStart, rangeEnd)
               THEN ListRespond(r, rec, 400, "Date range too large. Maximum 90 days", <<>>)
               ELSE req' = [req EXCEPT ![r] = rec]
    /\ UNCHANGED <<schedules, exceptions, summaries, bookings, attendance, bus>>

\* A request with a window over Days.
ListStart(r) == ListStartOn(r, Days)

\* A request with a window of up to three months.
LongDays == {0, 1, MaxDay, MaxRangeDays - 1, MaxRangeDays, MaxRangeDays + 1}

ListStartLong(r) == ListStartOn(r, LongDays)

\* The sessions of all the schedules found, from the exceptions fetched.
GenerateAll(rec) ==
    UNION { generateSessions(schedules[rec.tenantId, rec.found[i]],
                             DateUTC(rec.startDate, 0, 0),
                             DateUTC(rec.endDate, 23, 59 * 60 + 59),
                             { e \in rec.allExceptions :
                                 e.pk = ExceptionPk(rec.tenantId, rec.found[i]) },
                             rec.hourCycle) : i \in 1 .. Len(rec.found) }

\* 1. Query the tenant's schedules.  Without schedules nothing else is read.
ListSchedules(r) ==
    /\ req[r].kind = "list" /\ req[r].pc = "schedules"
    /\ LET rec == [req[r] EXCEPT !.found = QuerySchedules(req[r].tenantId)]
       IN  IF rec.found = <<>>
           THEN ListRespond(r, rec, 200, None, <<>>)
           ELSE req' = [req EXCEPT ![r] = [rec EXCEPT !.pc = "exceptions"]]
    /\ UNCHANGED <<schedules, exceptions, summaries, bookings, attendance, bus>>

\* 2. Query the exceptions of the next schedule; after the last one,
\* 3. generate the sessions (fetchSummaries returns at once when there are
\* none).
ListExceptions(r) ==
    /\ req[r].kind = "list" /\ req[r].pc = "exceptions"
    /\ LET scheduleId == req[r].found[req[r].queried + 1]
           rec == [req[r] EXCEPT
                     !.queried = @ + 1,
                     !.allExceptions =
                        @ \cup QueryExceptions(req[r].tenantId, scheduleId,
                                               req[r].startDate, req[r].endDate)]
           allSessions == GenerateAll(rec)
       IN  IF rec.queried < Len(rec.found)
           THEN req' = [req EXCEPT ![r] = rec]
           ELSE IF allSessions = {}
           THEN ListRespond(r, rec, 200, None, <<>>)
           ELSE req' = [req EXCEPT ![r] = [rec EXCEPT !.pc = "summaries",
                                                      !.allSessions = allSessions]]
    /\ UNCHANGED <<schedules, exceptions, summaries, bookings, attendance, bus>>

\* 4. BatchGet the summaries, 5. merge, 6. filter (no filter parameter),
\* 7. sort.
ListSummaries(r) ==
    /\ req[r].kind = "list" /\ req[r].pc = "summaries"
    /\ ListRespond(r, req[r], 200, None,
                   SortByStart(MergeSummaries(req[r].tenantId, req[r].allSessions)))
    /\ UNCHANGED <<schedules, exceptions, summaries, bookings, attendance, bus>>

\* A query of the listing fails: the catch answers 500.  A failed BatchGet is
\* caught by fetchSummaries, and the sessions are returned without counts.
ListFault(r) ==
    /\ req[r].kind = "list"
    /\ req[r].pc \in {"schedules", "exceptions", "summaries"}
    /\ LET rec == [req[r] EXCEPT !.fault = TRUE]
       IN  IF rec.pc = "summaries"
           THEN ListRespond(r, rec, 200, None, SortByStart(rec.allSessions))
           ELSE ListRespond(r, rec, 500, "StoreUnavailable", <<>>)
    /\ UNCHANGED <<schedules, exceptions, summaries, bookings, attendance, bus>>

NextSessions ==
    \E r \in Reqs :
        \/ ListStart(r)
        \/ ListSchedules(r)
        \/ ListExceptions(r)
        \/ ListSummaries(r)
        \/ ListFault(r)

\* Local start hours and rules of the recurring schedule sched_x.
StartHours == {8, 19}
Rules == { {"MO", "WE", "FR"}, {"MO", "TU", "WE", "TH", "FR", "SA", "SU"} }

ListSessionIds == { generateSessionId(s, d) : s \in ScheduleIds, d \in OccurrenceDays }

\* Tenant t1 has the recurring schedule sched_x (zone, first day, hour and
\* rule drawn), with at most one exception, and possibly the one-off
\* schedule sched_y on Wednesday 19:00 Bogota time; the Wednesday session of
\* sched_x has a summary.
InitSessions ==
    \E timezone \in Timezones, date \in {0, 1}, hours \in StartHours,
       byday \in Rules, single \in BOOLEAN,
       excDate \in OccurrenceDays \cup {NoDate}, type \in {"CANCELLED", "OVERRIDE"} :
        /\ excDate = NoDate => type = "CANCELLED"
        /\ schedules = [t \in Tenants, s \in ScheduleIds |->
                IF t = T1 /\ s = "sched_x"
                THEN SessionSchedule(s, timezone, date, hours, TRUE, byday)
                ELSE IF t = T1 /\ s = "sched_y" /\ single
                THEN SessionSchedule(s, "America/Bogota", 2, 19, FALSE, {})
                ELSE NoItem]
        /\ exceptions = [k \in { <<ExceptionPk(t, s), d>> :
                                    t \in Tenants, s \in ScheduleIds,
                                    d \in OccurrenceDays } |->
                IF k = <<ExceptionPk(T1, "sched_x"), excDate>>
                THEN Exception(type, IF type = "OVERRIDE" THEN 1 ELSE NoCap)
                ELSE NoItem]
        /\ summaries = [t \in Tenants, s \in ListSessionIds |->
                IF t = T1 /\ s = generateSessionId("sched_x", 2)
                THEN Summary(1, NoCap) ELSE NoItem]
        /\ bookings = [b \in BookingIds |-> NoItem]
        /\ attendance = {}
        /\ bus = [r \in Reqs |-> <<>>]
        /\ req = [r \in Reqs |-> IdleReq]

SpecSessions == InitSessions /\ [][NextSessions]_vars

\* Weekly rules: tenant t1 has the recurring schedule sched_x alone, in one
\* of the zones or in America/New_York, with a morning, an evening or a late
\* evening start and one of the BYDAY sets; no exception.
WeeklyHours == {7, 19, 23}
WeeklyRules == { {"MO", "WE", "FR"}, {"TU", "TH"}, {"SA", "SU"}, {"WE"} }

InitWeekly ==
    \E timezone \in Timezones \cup {"America/New_York"}, date \in {0, 1},
       hours \in WeeklyHours, byday \in WeeklyRules :
        /\ schedules = [t \in Tenants, s \in ScheduleIds |->
                IF t = T1 /\ s = "sched_x"
                THEN SessionSchedule(s, timezone, date, hours, TRUE, byday)
                ELSE NoItem]
        /\ exceptions = [k \in { <<ExceptionPk(t, s), d>> :
                                    t \in Tenants, s \in ScheduleIds,
                                    d \in OccurrenceDays } |-> NoItem]
        /\ summaries = [t \in Tenants, s \in ListSessionIds |->
                IF t = T1 /\ s = generateSessionId("sched_x", 2)
                THEN Summary(1, NoCap) ELSE NoItem]
        /\ bookings = [b \in BookingIds |-> NoItem]
        /\ attendance = {}
        /\ bus = [r \in Reqs |-> <<>>]
        /\ req = [r \in Reqs |-> IdleReq]

SpecWeekly == InitWeekly /\ [][NextSessions]_vars

\* Long windows: tenant t1 has the one-off schedule sched_x (zone, day and
\* hour drawn); no exception.
InitRange ==
    \E timezone \in Timezones, date \in {0, 2}, hours \in StartHours :
        /\ schedules = [t \in Tenants, s \in ScheduleIds |->
                IF t = T1 /\ s = "sched_x"
                THEN SessionSchedule(s, timezone, date, hours, FALSE, {})
                ELSE NoItem]
        /\ exceptions = [k \in { <<ExceptionPk(t, s), d>> :
                                    t \in Tenants, s \in ScheduleIds,
                                    d \in OccurrenceDays } |-> NoItem]
        /\ summaries = [t \in Tenants, s \in ListSessionIds |->
                IF t = T1 /\ s = generateSessionId("sched_x", 2)
                THEN Summary(1, NoCap) ELSE NoItem]
        /\ bookings = [b \in BookingIds |-> NoItem]
        /\ attendance = {}
        /\ bus = [r \in Reqs |-> <<>>]
        /\ req = [r \in Reqs |-> IdleReq]

NextRange ==
    \E r \in Reqs :
        \/ ListStartLong(r)
        \/ ListSchedules(r)
        \/ ListExceptions(r)
        \/ ListSummaries(r)
        \/ ListFault(r)

SpecRange == InitRange /\ [][NextRange]_vars

\* ------------------------------------------- readers of a single session
\* The window a reader hands to generateSessions for the date of a session
\* id.  Single-session mode and the check-in lookup: the date at 00:00:00Z
\* and 24 hours later.
DayWindow(date) ==
    [rangeStart |-> DateUTC(date, 0, 0),
     rangeEnd |-> DateUTC(date, 0, 0) + SecondsPerDay]

\* The event worker: 00:00:00Z less 14 hours to 23:59:59Z plus 12 hours.
ExtendedWindow(date) ==
    [rangeStart |-> DateUTC(date, 0, 0) - 14 * SecondsPerHour,
     rangeEnd |-> DateUTC(date, 23, 59 * 60 + 59) + 12 * SecondsPerHour]

\* Get the schedule and the exception of the session id's date, generate the
\* sessions of the window and find the one with this id; NoItem when the
\* schedule is missing or no session has the id.
FindSession(tenantId, sessionId, window, hourCycle) ==
    LET id == parseSessionId(sessionId)
        schedule == schedules[tenantId, id.scheduleId]
        exception == GetException(tenantId, id.scheduleId, id.date)
        found ==
            { s \in generateSessions(
                        schedule, window.rangeStart, window.rangeEnd,
                        IF exception = NoItem THEN {}
                        ELSE {ExceptionItem(ExceptionPk(tenantId, id.scheduleId),
                                            id.date, exception)},
                        hourCycle) : s.sessionId = sessionId }
    IN  IF schedule = NoItem \/ found = {} THEN NoItem
        ELSE CHOOSE s \in found : TRUE

\* The task of a reader that resolves one session id.
ReaderReq(kind, tenantId, sessionId, hourCycle, result) ==
    [kind |-> kind, pc |-> "done", tenantId |-> tenantId, sessionId |-> sessionId,
     hourCycle |-> hourCycle, fault |-> FALSE, result |-> result]

\* A reader is asked for a session id that a listing of the same deployment
\* returned.  The store is only read here, so the reads of one lookup are
\* taken together.
ListedSessionIds(o) ==
    { req[o].result.body[i].sessionId : i \in 1 .. Len(req[o].result.body) }

\* SessionsService.getSingleSession (GET /sessions?sessionId=).
GetSingleSession(r) ==
    /\ req[r].kind = "idle"
    /\ \E o \in Reqs \ {r} :
        /\ req[o].kind = "list" /\ req[o].pc = "done" /\ req[o].result.code = 200
        /\ \E sessionId \in ListedSessionIds(o) :
            LET tenantId == req[o].tenantId
                id == parseSessionId(sessionId)
                session == FindSession(tenantId, sessionId, DayWindow(id.date),
                                       req[o].hourCycle)
                merged == IF session # NoItem /\ summaries[tenantId, sessionId] # NoItem
                          THEN [session EXCEPT !.bookedCount =
                                    summaries[tenantId, sessionId].bookedCount]
                          ELSE session
            IN  req' = [req EXCEPT ![r] =
                    ReaderReq("single", tenantId, sessionId, req[o].hourCycle,
                        IF schedules[tenantId, id.scheduleId] = NoItem
                        THEN [code |-> 404, msg |-> "Schedule not found", body |-> NoItem]
                        ELSE IF session = NoItem
                        THEN [code |-> 404, msg |-> "Session not found (may be cancelled)",
                              body |-> NoItem]
                        ELSE [code |-> 200, msg |-> None, body |-> merged])]
    /\ UNCHANGED <<schedules, exceptions, summaries, bookings, attendance, bus>>

\* AttendanceService.getSessionInfo (the session lookup of a check-in).
CheckInLookup(r) ==
    /\ req[r].kind = "idle"
    /\ \E o \in Reqs \ {r} :
        /\ req[o].kind = "list" /\ req[o].pc = "done" /\ req[o].result.code = 200
        /\ \E sessionId \in ListedSessionIds(o) :
            LET session == FindSession(req[o].tenantId, sessionId,
                                       DayWindow(parseSessionId(sessionId).date),
                                       req[o].hourCycle)
            IN  req' = [req EXCEPT ![r] =
                    ReaderReq("checkinLookup", req[o].tenantId, sessionId,
                              req[o].hourCycle,
                              [code |-> 0, msg |-> None, body |-> session])]
    /\ UNCHANGED <<schedules, exceptions, summaries, bookings, attendance, bus>>

\* getSessionInfo of the event worker; the session found gives the details
\* of the result event.
WorkerLookup(r) ==
    /\ req[r].kind = "idle"
    /\ \E o \in Reqs \ {r} :
        /\ req[o].kind = "list" /\ req[o].pc = "done" /\ req[o].result.code = 200
        /\ \E sessionId \in ListedSessionIds(o) :
            LET session == FindSession(req[o].tenantId, sessionId,
                                       ExtendedWindow(parseSessionId(sessionId).date),
                                       req[o].hourCycle)
            IN  req' = [req EXCEPT ![r] =
                    ReaderReq("workerLookup", req[o].tenantId, sessionId,
                              req[o].hourCycle,
                              [code |-> 0, msg |-> None, body |-> session])]
    /\ UNCHANGED <<schedules, exceptions, summaries, bookings, attendance, bus>>

\* A listing, then a reader asked for one of the listed sessions.
NextReaders ==
    \/ NextSessions
    \/ \E r \in Reqs :
        \/ GetSingleSession(r)
        \/ CheckInLookup(r)
        \/ WorkerLookup(r)

SpecReaders == InitSessions /\ [][NextReaders]_vars

\* ================================================================= claims
\* The resolved capacity of a session as the store holds it now.
StoredCapacity(t, s) ==
    LET id == parseSessionId(s)
    IN  IF schedules[t, id.scheduleId] = NoItem THEN NoCap
        ELSE ResolvedCapacity(GetException(t, id.scheduleId, id.date),
                              schedules[t, id.scheduleId])

\* The session resolves for a create: its schedule is stored and its date is not
\* cancelled by an exception.
Bookable(t, s) ==
    LET id == parseSessionId(s)
    IN  /\ schedules[t, id.scheduleId] # NoItem
        /\ ~(/\ GetException(t, id.scheduleId, id.date) # NoItem
             /\ GetException(t, id.scheduleId, id.date).type = "CANCELLED")

\* SessionSummary[t, s].bookedCount, an absent summary counting as 0.
BookedCount(t, s) ==
    IF summaries[t, s] = NoItem THEN 0 ELSE summaries[t, s].bookedCount

ConfirmedBookings(t, s) ==
    { b \in BookingIds :
        /\ bookings[b] # NoItem
        /\ bookings[b].tenantId = t
        /\ bookings[b].sessionId = s
        /\ bookings[b].status = "CONFIRMED" }

\* No request in flight.
Quiesced == \A r \in Reqs : req[r].pc \in {"idle", "done"}

Finished(r) == req[r].pc = "done"

\* C1: for every session with a numeric resolved capacity C (C = 0 included),
\* bookedCount <= C in every reachable state.
C1_BookedCountWithinCapacity ==
    \A t \in Tenants, s \in SessionIds :
        StoredCapacity(t, s) # NoCap => BookedCount(t, s) <= StoredCapacity(t, s)

\* (C1, the part the code keeps: the bound holds for every capacity C >= 1.)
C1_WithinPositiveCapacity ==
    \A t \in Tenants, s \in SessionIds :
        StoredCapacity(t, s) >= 1 => BookedCount(t, s) <= StoredCapacity(t, s)

\* The bookings stored before the run (made by earlier requests) on a session.
SeededOn(t, s) ==
    { b \in Seeds : bookings[b] # NoItem /\ bookings[b].pk = BookingPk(t, s) }

OthersIdle(rs) == \A o \in Reqs \ rs : req[o].kind = "idle"

\* Two answered HTTP creates by distinct subjects on one session of
\* baseCapacity 1 that held no booking, no store fault injected, nothing else
\* running.
C2_Pair(r1, r2) ==
    /\ r1 # r2
    /\ req[r1].kind = "create" /\ req[r2].kind = "create"
    /\ Finished(r1) /\ Finished(r2)
    /\ ~req[r1].fault /\ ~req[r2].fault
    /\ req[r1].tenantId # NoTenant
    /\ req[r1].tenantId = req[r2].tenantId
    /\ req[r1].sessionId = req[r2].sessionId
    /\ req[r1].subjectId # req[r2].subjectId
    /\ Bookable(req[r1].tenantId, req[r1].sessionId)
    /\ schedules[req[r1].tenantId, req[r1].sessionId[1]].baseCapacity = 1
    /\ StoredCapacity(req[r1].tenantId, req[r1].sessionId) = 1
    /\ SeededOn(req[r1].tenantId, req[r1].sessionId) = {}
    /\ OthersIdle({r1, r2})

Created(r) ==
    /\ req[r].result = Result(201, "CONFIRMED")
    /\ bookings[generateId(r)] # NoItem
    /\ bookings[generateId(r)].status = "CONFIRMED"
    /\ bookings[generateId(r)].subjectId = req[r].subjectId

AtCapacity(r) ==
    /\ req[r].result = Result(409, "Session is at capacity")
    /\ bookings[generateId(r)] = NoItem

\* C2: two creates by distinct subjects racing for a session of baseCapacity 1
\* with no prior booking: in every interleaving exactly one is answered 201 with
\* a CONFIRMED booking, the other 409 'at capacity', and bookedCount ends at 1.
C2_CapacityRace ==
    \A r1, r2 \in Reqs :
        C2_Pair(r1, r2) =>
            /\ \/ Created(r1) /\ AtCapacity(r2)
               \/ Created(r2) /\ AtCapacity(r1)
            /\ BookedCount(req[r1].tenantId, req[r1].sessionId) = 1
            /\ Cardinality(ConfirmedBookings(req[r1].tenantId, req[r1].sessionId)) = 1

\* C2 witness: the second request arrived while the first was in flight, and
\* it is the one that got the place.
C2_Witness ==
    \E r1, r2 \in Reqs :
        /\ r1 < r2
        /\ C2_Pair(r1, r2)
        /\ ~req[r2].sequential
        /\ Created(r2) /\ AtCapacity(r1)

\* C3: in every quiesced state, for every tenant and session, the number of
\* CONFIRMED bookings equals the summary's bookedCount (absent counting as 0).
C3_CountMatchesConfirmed ==
    Quiesced =>
        \A t \in Tenants, s \in SessionIds :
            Cardinality(ConfirmedBookings(t, s)) = BookedCount(t, s)

\* The cancels of booking b whose transaction committed (answered 200): each
\* of them decremented the session's bookedCount by one.
CommittedCancels(b) ==
    { r \in Reqs : /\ req[r].kind = "cancel"
                   /\ req[r].bookingId = b
                   /\ req[r].result = Result(200, "cancelled") }

\* C4: whatever the number and interleaving of cancel requests for a booking,
\* the session's bookedCount is decremented at most once for it.
C4_DecrementAtMostOnce ==
    \A b \in BookingIds : Cardinality(CommittedCancels(b)) <= 1

\* Task r sends its transaction in this step.
Transacts(r) == req[r].pc = "transact" /\ req'[r].pc # "transact"

\* The create of task r is acknowledged as a success by this step.
CreateAcknowledged(r) ==
    IF req[r].kind = "create"
    THEN req'[r].result.code = 201
    ELSE req'[r].pc = "emit" /\ req'[r].emit.status = "CONFIRMED"

C5_CreateStep(r) ==
    LET t == req[r].tenantId
        s == req[r].sessionId
        id == generateId(r)
    IN  IF CreateAcknowledged(r)
        THEN /\ bookings[id] = NoItem
             /\ bookings'[id] # NoItem
             /\ bookings'[id].status = "CONFIRMED"
             /\ bookings'[id].pk = BookingPk(t, s)
             /\ \A b \in BookingIds \ {id} : bookings'[b] = bookings[b]
             /\ summaries'[t, s] # NoItem
             /\ summaries'[t, s].bookedCount = BookedCount(t, s) + 1
             /\ \A k \in DOMAIN summaries \ {<<t, s>>} : summaries'[k] = summaries[k]
        ELSE /\ bookings' = bookings
             /\ bookings'[id] = NoItem
             /\ summaries' = summaries

C5_CancelStep(r) ==
    LET t == req[r].tenantId
        s == req[r].sessionId
        id == req[r].bookingId
    IN  IF req'[r].result.code = 200
        THEN /\ bookings'[id].status = "CANCELLED"
             /\ \A b \in BookingIds \ {id} : bookings'[b] = bookings[b]
             /\ summaries[t, s] # NoItem
             /\ summaries'[t, s].bookedCount = summaries[t, s].bookedCount - 1
             /\ \A k \in DOMAIN summaries \ {<<t, s>>} : summaries'[k] = summaries[k]
        ELSE /\ bookings' = bookings
             /\ summaries' = summaries

\* C5: create and cancel are all-or-nothing.  A step that sends a create's
\* transaction either is acknowledged and has written the booking row and the
\* counter increment, or is not acknowledged and has written neither (no row
\* for it, bookedCount unchanged); a step that sends a cancel's transaction
\* either answers 200 and has written the status and the decrement, or fails
\* and leaves booking and counter as they were; no other step writes either
\* table.
C5_AllOrNothing ==
    [][ /\ \A r \in Reqs :
            Transacts(r) =>
                IF req[r].kind = "cancel" THEN C5_CancelStep(r) ELSE C5_CreateStep(r)
        /\ (\A r \in Reqs : ~Transacts(r)) =>
                bookings' = bookings /\ summaries' = summaries ]_vars

\* C5 witness: a create refused at capacity and a cancel whose transaction the
\* store cancelled: no row for the create, the booking of the cancel still
\* CONFIRMED and counted.
C5_Witness ==
    \E r, c \in Reqs :
        /\ req[r].kind \in CreateKinds
        /\ Finished(r) /\ ~req[r].fault
        /\ \/ req[r].result = Result(409, "Session is at capacity")
           \/ /\ bus[r] # <<>>
              /\ bus[r][1].error = "Session is at capacity"
        /\ bookings[generateId(r)] = NoItem
        /\ req[c].kind = "cancel"
        /\ req[c].result = Result(500, "Transaction cancelled")
        /\ bookings[req[c].bookingId] # NoItem
        /\ bookings[req[c].bookingId].status = "CONFIRMED"
        /\ BookedCount(req[c].tenantId, req[c].sessionId)
             = Cardinality(ConfirmedBookings(req[c].tenantId, req[c].sessionId))

\* A non-cancelled booking of the subject is stored on the session.
HasActiveBooking(t, s, u) ==
    \E b \in BookingIds :
        /\ bookings[b] # NoItem
        /\ bookings[b].tenantId = t
        /\ bookings[b].sessionId = s
        /\ bookings[b].subjectId = u
        /\ bookings[b].status # "CANCELLED"

AlreadyBooked == Result(409, "Already have a confirmed booking for this session")

\* C6: an HTTP create whose duplicate check runs while a non-cancelled booking
\* of its subject is stored on its session is answered 409 (already booked)
\* and leaves the bookings table and the summaries unchanged.
C6_DuplicateRejected ==
    [][ \A r \in Reqs :
            ( /\ req[r].kind = "create"
              /\ req[r].pc = "existing"
              /\ req'[r].pc # "existing"
              /\ ~req'[r].fault
              /\ HasActiveBooking(req[r].tenantId, req[r].sessionId, req[r].subjectId) )
            => /\ req'[r].pc = "done"
               /\ req'[r].result = AlreadyBooked
               /\ bookings' = bookings
               /\ summaries' = summaries ]_vars

\* C6 witness: a create answered 409 'already booked', the subject's earlier
\* booking still the only one it has on the session.
C6_Witness ==
    \E r \in Reqs :
        /\ req[r].kind = "create"
        /\ req[r].result = AlreadyBooked
        /\ bookings[generateId(r)] = NoItem
        /\ HasActiveBooking(req[r].tenantId, req[r].sessionId, req[r].subjectId)

\* The same event delivered twice, the second delivery after the first was
\* handled: tasks r1 < r2 of one event type with the same (tenantId, sessionId,
\* subjectId), no store fault, both puts to the bus successful, nothing else
\* running, and the first delivery created the booking.
C7_Redelivered(r1, r2) ==
    /\ r1 < r2
    /\ req[r1].kind \in EventKinds
    /\ req[r2].kind = req[r1].kind
    /\ Finished(r1) /\ Finished(r2)
    /\ req[r2].sequential
    /\ ~req[r1].fault /\ ~req[r2].fault
    /\ req[r1].tenantId # NoTenant
    /\ req[r2].tenantId = req[r1].tenantId
    /\ req[r2].sessionId = req[r1].sessionId
    /\ req[r2].subjectId = req[r1].subjectId
    /\ OthersIdle({r1, r2})
    /\ Len(bus[r1]) = 1 /\ Len(bus[r2]) = 1
    /\ bus[r1][1].delivered /\ bus[r2][1].delivered
    /\ bus[r1][1].status = "CONFIRMED"
    /\ bus[r1][1].bookingId = generateId(r1)

\* C7: the same booking_requested (or consultation_requested) event delivered
\* twice yields two confirmation events carrying the same bookingId, one
\* booking row, and one increment of bookedCount.
C7_IdempotentRedelivery ==
    \A r1, r2 \in Reqs :
        C7_Redelivered(r1, r2) =>
            LET t == req[r1].tenantId
                s == req[r1].sessionId
            IN  /\ bus[r1][1].detailType = DetailType(req[r1].kind, "CONFIRMED")
                /\ bus[r2][1].detailType = DetailType(req[r2].kind, "CONFIRMED")
                /\ bus[r2][1].bookingId = bus[r1][1].bookingId
                /\ bookings[generateId(r1)] # NoItem
                /\ bookings[generateId(r1)].status = "CONFIRMED"
                /\ bookings[generateId(r2)] = NoItem
                /\ BookedCount(t, s) = Cardinality(SeededOn(t, s)) + 1
                /\ Cardinality(ConfirmedBookings(t, s)) = Cardinality(SeededOn(t, s)) + 1

\* C7 witness: a scheduling.booking_requested event handled twice on a session
\* that already held another subject's booking.
C7_Witness ==
    \E r1, r2 \in Reqs :
        /\ C7_Redelivered(r1, r2)
        /\ req[r1].kind = "booking_requested"
        /\ SeededOn(req[r1].tenantId, req[r1].sessionId) # {}
        /\ bus[r2][1].detailType = "scheduling.booking_confirmed"

\* The result events of task r that reached the bus.
ResultEvents(r) == { i \in 1 .. Len(bus[r]) : bus[r][i].delivered }

\* The event of task r carried a detail object: its handler got past the
\* destructuring of the payload.
HasDetail(r) == req[r].result # Result(0, "thrown")

\* C8: for every consumed booking_requested / consultation_requested event the
\* worker has emitted exactly one result event when its handler has ended, on
\* every path, a failing put to the bus included.
C8_ExactlyOneResultEvent ==
    \A r \in Reqs :
        (req[r].kind \in EventKinds /\ Finished(r) /\ HasDetail(r)) =>
            Cardinality(ResultEvents(r)) = 1

\* C9: the worker's handler never ends with an exception propagated to the
\* transport, whatever the event: every handled event ends with a normal
\* return.
C9_NeverThrows ==
    \A r \in Reqs :
        (req[r].kind \in EventKinds /\ Finished(r)) =>
            req[r].result = Result(0, "returned")

\* C10: in every step of every operation (create, cancel, check-in, override,
\* event-driven create) a stored booking stays stored and its status either
\* stays as it is or goes from CONFIRMED to CANCELLED; a CANCELLED booking
\* never becomes CONFIRMED again.
C10_OnlyConfirmedToCancelled ==
    [][ \A b \in BookingIds :
            bookings[b] # NoItem =>
                /\ bookings'[b] # NoItem
                /\ \/ bookings'[b].status = bookings[b].status
                   \/ /\ bookings[b].status = "CONFIRMED"
                      /\ bookings'[b].status = "CANCELLED" ]_vars

\* C10 witness: a booking was cancelled by a cancel request, and its subject
\* booked the same session again: the cancelled booking is still CANCELLED,
\* next to the new CONFIRMED one.
C10_Witness ==
    \E b, n \in BookingIds :
        /\ b # n
        /\ bookings[b] # NoItem /\ bookings[n] # NoItem
        /\ bookings[b].status = "CANCELLED"
        /\ bookings[n].status = "CONFIRMED"
        /\ bookings[n].pk = bookings[b].pk
        /\ bookings[n].subjectId = bookings[b].subjectId
        /\ \E r \in Reqs : /\ req[r].kind = "cancel"
                           /\ req[r].bookingId = b
                           /\ req[r].result.code = 200

\* C11: every stored attendance record has a stored booking with the same
\* tenantId, sessionId and bookingId and the same subjectId, whether the record
\* was written by a check-in or by an override.
C11_AttendanceHasBooking ==
    \A a \in attendance :
        /\ bookings[a.bookingId] # NoItem
        /\ bookings[a.bookingId].tenantId = a.tenantId
        /\ bookings[a.bookingId].sessionId = a.sessionId
        /\ bookings[a.bookingId].subjectId = a.subjectId

\* (C11, the part the code keeps: the records written by check-in.)
C11_CheckInHasBooking ==
    \A a \in attendance :
        a.checkInMethod # "OVERRIDE" =>
            /\ bookings[a.bookingId] # NoItem
            /\ bookings[a.bookingId].tenantId = a.tenantId
            /\ bookings[a.bookingId].sessionId = a.sessionId
            /\ bookings[a.bookingId].subjectId = a.subjectId

SessionNotFound == Result(404, "Session not found")

\* The session lookup of task r reads the schedule / the exception in this step
\* and the store answers.
ReadsSchedule(r) == req[r].pc = "schedule" /\ req'[r].pc # "schedule" /\ ~req'[r].fault
ReadsException(r) == req[r].pc = "exception" /\ req'[r].pc # "exception" /\ ~req'[r].fault

\* C12: an HTTP create whose session lookup finds no schedule of the tenant, or
\* finds a CANCELLED exception on the date, ends with 404 and writes neither a
\* booking row nor a summary change.
C12_SessionNotFound ==
    [][ \A r \in Reqs :
            LET id == parseSessionId(req[r].sessionId)
            IN  ( /\ req[r].kind = "create"
                  /\ \/ /\ ReadsSchedule(r)
                        /\ schedules[req[r].tenantId, id.scheduleId] = NoItem
                     \/ /\ ReadsException(r)
                        /\ GetException(req[r].tenantId, id.scheduleId, id.date) # NoItem
                        /\ GetException(req[r].tenantId, id.scheduleId, id.date).type
                              = "CANCELLED" )
                => /\ req'[r].pc = "done"
                   /\ req'[r].result = SessionNotFound
                   /\ req'[r].bookingId = NoBooking
                   /\ bookings' = bookings
                   /\ summaries' = summaries ]_vars

\* C12 witness: one create answered 404 for a tenant without the schedule, and
\* one answered 404 for a date of a stored schedule that is cancelled; nothing
\* was written for either.
C12_Witness ==
    \E r1, r2 \in Reqs :
        /\ req[r1].kind = "create" /\ req[r2].kind = "create"
        /\ req[r1].result = SessionNotFound /\ req[r2].result = SessionNotFound
        /\ schedules[req[r1].tenantId, req[r1].sessionId[1]] = NoItem
        /\ schedules[req[r2].tenantId, req[r2].sessionId[1]] # NoItem
        /\ GetException(req[r2].tenantId, req[r2].sessionId[1], req[r2].sessionId[2]) # NoItem
        /\ GetException(req[r2].tenantId, req[r2].sessionId[1], req[r2].sessionId[2]).type
              = "CANCELLED"
        /\ bookings[generateId(r1)] = NoItem /\ bookings[generateId(r2)] = NoItem
        /\ summaries[req[r2].tenantId, req[r2].sessionId] = NoItem

Min(a, b) == IF a <= b THEN a ELSE b

\* The requests that have arrived.
Arrived == { r \in Reqs : req[r].kind # "idle" }

\* All requests that have arrived are creates (HTTP or event) on session s of
\* tenant t by distinct subjects that hold no booking on it, no store fault
\* occurred, and all of them have ended.
OnlyCreatesOn(t, s) ==
    /\ Arrived # {}
    /\ \A r \in Arrived :
        /\ req[r].kind \in CreateKinds
        /\ Finished(r) /\ ~req[r].fault
        /\ req[r].tenantId = t /\ req[r].sessionId = s
        /\ \A b \in SeededOn(t, s) : bookings[b].subjectId # req[r].subjectId
    /\ \A r1, r2 \in Arrived : r1 # r2 => req[r1].subjectId # req[r2].subjectId

\* The create of task r wrote its booking / was refused for capacity.
Succeeded(r) ==
    /\ bookings[generateId(r)] # NoItem
    /\ bookings[generateId(r)].status = "CONFIRMED"

Refused(r) ==
    /\ bookings[generateId(r)] = NoItem
    /\ IF req[r].kind = "create"
       THEN req[r].result = Result(409, "Session is at capacity")
       ELSE bus[r] # <<>> /\ bus[r][1].error = "Session is at capacity"

\* n creates by distinct subjects on a session with `places` free places:
\* min(n, places) of them succeed and the others are refused for capacity.
Enforced(places) ==
    /\ Cardinality({ r \in Arrived : Succeeded(r) }) = Min(Cardinality(Arrived), places)
    /\ \A r \in Arrived : Succeeded(r) \/ Refused(r)

\* The capacity rule of C13 for overrides of capacity K >= minK and base
\* capacities C >= minK.
OverrideCapacityEnforced(minK) ==
    \A t \in Tenants, s \in SessionIds :
        LET id == parseSessionId(s)
            schedule == schedules[t, id.scheduleId]
            exception == GetException(t, id.scheduleId, id.date)
        IN  (OnlyCreatesOn(t, s) /\ Bookable(t, s) /\ id.date \in schedule.occurs) =>
              IF exception # NoItem /\ exception.overrideCapacity # NoCap
              THEN exception.overrideCapacity >= minK =>
                     Enforced(exception.overrideCapacity)
              ELSE (schedule.baseCapacity # NoCap /\ schedule.baseCapacity >= minK) =>
                     Enforced(schedule.baseCapacity - Cardinality(SeededOn(t, s)))

\* C13: on a date with an OVERRIDE exception of overrideCapacity K the creates
\* are bounded by K whatever baseCapacity is (K creates by distinct subjects
\* succeed, the next is refused with 'at capacity'), and on every other date of
\* the schedule they are bounded by baseCapacity.
C13_OverrideCapacityEnforced == OverrideCapacityEnforced(0)

\* (C13, the part the code keeps: overrides and base capacities of 1 or more.)
C13_PositiveOverrideEnforced == OverrideCapacityEnforced(1)

\* C14: tenant isolation.  The duplicate query of a create under tenant t
\* (Query pk = tenantId#sessionId, filter subjectId) only ever returns
\* bookings of tenant t, and the bookings stored under one pk all belong to
\* one tenant: the composite key of one (tenant, session) never coincides with
\* that of another.
C14_TenantIsolation ==
    /\ \A t \in Tenants, s \in SessionIds, u \in Subjects :
            \A b \in ExistingBookings(t, s, u) : bookings[b].tenantId = t
    /\ \A b1, b2 \in BookingIds :
            (bookings[b1] # NoItem /\ bookings[b2] # NoItem
                /\ bookings[b1].pk = bookings[b2].pk)
            => /\ bookings[b1].tenantId = bookings[b2].tenantId
               /\ bookings[b1].sessionId = bookings[b2].sessionId

\* (C14, the lookups that filter on the tenantId attribute itself keep
\* isolation: findBookingById returns only bookings of the tenant.)
C14_ByIdStaysInTenant ==
    \A t \in Tenants, id \in BookingIds :
        \A b \in BookingsById(t, id) : bookings[b].tenantId = t

\* C15: the subject of a POST /bookings is the claim's sub, else the
\* X-Subject-Id header, else the body's subjectId: when the claim or the header
\* names a subject, the booking is made for that subject, whatever the body says.
C15_ClaimAndHeaderFirst ==
    \A r \in Reqs :
        (req[r].kind = "create" /\ req[r].pc = "schedule" /\ req[r].caller # None)
            => req[r].subjectId = req[r].caller

\* The outcome C16 prescribes for a cancel that reads booking b of its tenant:
\* 404 when the tenant has no such booking, else 403 when the caller is known
\* and is not the booking's subject, else 400 when the booking is CANCELLED,
\* else the cancel goes on to its transaction.
C16_Checked(r) ==
    LET b == req[r].bookingId
        found == bookings[b] # NoItem /\ bookings[b].tenantId = req[r].tenantId
    IN  /\ bookings' = bookings
        /\ summaries' = summaries
        /\ IF ~found
           THEN req'[r].pc = "done" /\ req'[r].result = Result(404, "Booking not found")
           ELSE IF req[r].caller # None /\ bookings[b].subjectId # req[r].caller
           THEN req'[r].pc = "done" /\ req'[r].result = Result(403, "Not authorized")
           ELSE IF bookings[b].status = "CANCELLED"
           THEN req'[r].pc = "done" /\ req'[r].result = Result(400, "Already cancelled")
           ELSE req'[r].pc = "transact"

\* C16: cancel checks 404 (not found in the tenant), then 403 (caller known and
\* not the owner), then 400 (already cancelled), and changes nothing in these
\* cases; only a cancel that passed the three checks sends the transaction,
\* which sets status CANCELLED and decrements bookedCount by one.
C16_CancelCheckOrder ==
    [][ \A r \in Reqs :
            req[r].kind = "cancel" =>
                /\ (req[r].pc = "find" /\ req'[r].pc # "find" /\ ~req'[r].fault)
                        => C16_Checked(r)
                /\ (req[r].pc = "transact" /\ req'[r].result.code = 200)
                        => /\ bookings'[req[r].bookingId].status = "CANCELLED"
                           /\ summaries'[req[r].tenantId, req[r].sessionId].bookedCount
                                = summaries[req[r].tenantId, req[r].sessionId].bookedCount - 1
                /\ (req[r].pc # "done" /\ req'[r].pc = "done" /\ req'[r].result.code # 200)
                        => bookings' = bookings /\ summaries' = summaries ]_vars

\* C16 witness: a cancel by someone who is not the owner, for a booking that
\* is already CANCELLED, is answered 403 (not 400); the booking and the counter
\* are as the first cancel left them.
C16_Witness ==
    \E r1, r2 \in Reqs :
        /\ req[r1].kind = "cancel" /\ req[r1].result.code = 200
        /\ req[r2].kind = "cancel" /\ req[r2].sequential
        /\ req[r2].bookingId = req[r1].bookingId
        /\ req[r2].tenantId = req[r1].tenantId
        /\ req[r2].result = Result(403, "Not authorized")
        /\ bookings[req[r1].bookingId].status = "CANCELLED"

\* The create of task r is reported as refused for capacity by this step.
ReportedAtCapacity(r) ==
    /\ req[r].kind \in CreateKinds
    /\ req[r].pc = "transact"
    /\ IF req[r].kind = "create"
       THEN req'[r].result = Result(409, "Session is at capacity")
       ELSE req'[r].pc = "emit" /\ req'[r].emit.error = "Session is at capacity"

\* C17: a cancelled create transaction is reported as 'at capacity' only when
\* the capacity condition is what cancelled it; a cancellation for another
\* reason (the put's not-exists condition, a conflict with a concurrent
\* transaction) is reported as a conflict.
C17_AtCapacityOnlyForCapacity ==
    [][ \A r \in Reqs :
            ReportedAtCapacity(r) =>
                ~ReserveCondition(summaries[req[r].tenantId, req[r].sessionId],
                                  req[r].capacity) ]_vars

\* An HTTP create r1 and an event-driven create r2 for the same session of the
\* same tenant, by two subjects without a booking on it, both ended without a
\* store fault, on a session with room for both (so that neither takes the
\* other's place).
C18_SameRequest(r1, r2) ==
    LET t == req[r1].tenantId
        s == req[r1].sessionId
    IN  /\ req[r1].kind = "create" /\ req[r2].kind \in EventKinds
        /\ Finished(r1) /\ Finished(r2)
        /\ ~req[r1].fault /\ ~req[r2].fault
        /\ t # NoTenant /\ req[r2].tenantId = t
        /\ s # NoSession /\ req[r2].sessionId = s
        /\ req[r1].subjectId # req[r2].subjectId
        /\ \A b \in SeededOn(t, s) :
                bookings[b].subjectId \notin {req[r1].subjectId, req[r2].subjectId}
        /\ schedules[t, parseSessionId(s).scheduleId] # NoItem
        /\ \/ StoredCapacity(t, s) = NoCap
           \/ StoredCapacity(t, s) >= Cardinality(SeededOn(t, s)) + 2
        /\ OthersIdle({r1, r2})

\* C18: the event-driven create succeeds exactly when the HTTP create
\* succeeds, and both leave a booking of the same status, counted once each.
C18_SameProtocol ==
    \A r1, r2 \in Reqs :
        C18_SameRequest(r1, r2) =>
            /\ Succeeded(r1) <=> Succeeded(r2)
            /\ Succeeded(r1) =>
                    BookedCount(req[r1].tenantId, req[r1].sessionId)
                        = Cardinality(SeededOn(req[r1].tenantId, req[r1].sessionId)) + 2

\* (C18, the part the code keeps: on a date that is an occurrence of the
\* schedule's rule the two paths agree.)
C18_SameProtocolOnOccurrences ==
    \A r1, r2 \in Reqs :
        ( /\ C18_SameRequest(r1, r2)
          /\ parseSessionId(req[r1].sessionId).date
                \in schedules[req[r1].tenantId,
                              parseSessionId(req[r1].sessionId).scheduleId].occurs )
        => /\ Succeeded(r1) <=> Succeeded(r2)
           /\ Succeeded(r1) =>
                    BookedCount(req[r1].tenantId, req[r1].sessionId)
                        = Cardinality(SeededOn(req[r1].tenantId, req[r1].sessionId)) + 2

\* ---------------------------------------------------------------- C19, C20
\* A GET /sessions request over a window that was answered with a list.
Listed(r) ==
    /\ req[r].kind = "list" /\ req[r].pc = "done"
    /\ req[r].result.code = 200

\* The (scheduleId, date) of the sessions in the response.
Returned(r) ==
    { <<req[r].result.body[i].scheduleId, req[r].result.body[i].date>> :
        i \in 1 .. Len(req[r].result.body) }

\* The local dates of a schedule's occurrences: its start date when it does
\* not recur, else the days of its rule from its start date on.
IsOccurrence(schedule, date) ==
    IF schedule.isRecurring
    THEN date >= schedule.start.date /\ Weekday(date) \in schedule.byday
    ELSE date = schedule.start.date

\* The store holds a CANCELLED exception for the schedule on that local date.
StoredCancelled(tenantId, scheduleId, date) ==
    /\ GetException(tenantId, scheduleId, date) # NoItem
    /\ GetException(tenantId, scheduleId, date).type = "CANCELLED"

\* The non-cancelled occurrences of the tenant's schedules whose local date
\* lies in [startDate, endDate].
InWindow(tenantId, startDate, endDate) ==
    { <<s, d>> \in ScheduleIds \X (startDate .. endDate) :
        /\ schedules[tenantId, s] # NoItem
        /\ IsOccurrence(schedules[tenantId, s], d)
        /\ ~StoredCancelled(tenantId, s, d) }

\* C19: GET /sessions over [startDate, endDate] returns exactly the
\* non-cancelled occurrences whose local date in the schedule's zone lies in
\* the window, whatever the zone's offset: none outside, none missing.
C19_ExactLocalWindow ==
    \A r \in Reqs :
        Listed(r) =>
            Returned(r) = InWindow(req[r].tenantId, req[r].startDate, req[r].endDate)

\* (C19, the part the code keeps: in the zone UTC, on a runtime that writes
\* the hour after midnight as "00", the response is exactly the window.)
C19_ExactWindowInUtc ==
    \A r \in Reqs :
        ( /\ Listed(r)
          /\ req[r].hourCycle = "h23"
          /\ \A s \in ScheduleIds :
                schedules[req[r].tenantId, s] # NoItem
                    => schedules[req[r].tenantId, s].timezone = "UTC" )
        => Returned(r) = InWindow(req[r].tenantId, req[r].startDate, req[r].endDate)

\* (C19, what the code returns instead on such a runtime: the occurrences
\* that start between startDate 00:00:00Z and endDate 23:59:59Z, less those
\* with a CANCELLED exception dated inside the window.)
C19_WindowOfUtcInstants ==
    \A r \in Reqs :
        (Listed(r) /\ req[r].hourCycle = "h23") =>
            Returned(r) =
                { <<s, d>> \in ScheduleIds \X OccurrenceDays :
                    LET schedule == schedules[req[r].tenantId, s]
                        start == IF schedule = NoItem THEN 0
                                 ELSE parseLocalDateTime(
                                        DateUTC(d, schedule.start.hours, 0),
                                        schedule.timezone)
                    IN  /\ schedule # NoItem
                        /\ IsOccurrence(schedule, d)
                        /\ start >= DateUTC(req[r].startDate, 0, 0)
                        /\ start <= DateUTC(req[r].endDate, 23, 59 * 60 + 59)
                        /\ ~( /\ StoredCancelled(req[r].tenantId, s, d)
                              /\ req[r].startDate <= d /\ d <= req[r].endDate ) }

\* C20: GET /sessions never returns a session whose (scheduleId, local
\* occurrence date) has a stored CANCELLED exception, in every zone.
C20_CancelledNeverReturned ==
    \A r \in Reqs :
        Listed(r) =>
            \A k \in Returned(r) : ~StoredCancelled(req[r].tenantId, k[1], k[2])

\* (C20, the part the code keeps: a returned session whose local date lies
\* inside the window is never a cancelled one.)
C20_CancelledInsideWindowHidden ==
    \A r \in Reqs :
        Listed(r) =>
            \A k \in Returned(r) :
                (req[r].startDate <= k[2] /\ k[2] <= req[r].endDate)
                    => ~StoredCancelled(req[r].tenantId, k[1], k[2])

\* (C20, the example: sched_x recurs MO,WE,FR from Monday in the zone UTC,
\* Wednesday is cancelled; the week's listing has Monday and Friday only.)
C20_ExampleWeekInUtc ==
    \A r \in Reqs :
        ( /\ Listed(r) /\ req[r].hourCycle = "h23"
          /\ req[r].tenantId = T1
          /\ req[r].startDate = 0 /\ req[r].endDate = 4
          /\ schedules[T1, "sched_x"].timezone = "UTC"
          /\ schedules[T1, "sched_x"].byday = {"MO", "WE", "FR"}
          /\ schedules[T1, "sched_x"].start.date = 0
          /\ StoredCancelled(T1, "sched_x", 2) )
        => { k \in Returned(r) : k[1] = "sched_x" }
                = { <<"sched_x", 0>>, <<"sched_x", 4>> }

\* The example's listing was given.
C20_ExampleReached ==
    \E r \in Reqs :
        /\ Listed(r) /\ req[r].hourCycle = "h23"
        /\ req[r].tenantId = T1
        /\ req[r].startDate = 0 /\ req[r].endDate = 4
        /\ schedules[T1, "sched_x"].timezone = "UTC"
        /\ schedules[T1, "sched_x"].byday = {"MO", "WE", "FR"}
        /\ schedules[T1, "sched_x"].start.date = 0
        /\ StoredCancelled(T1, "sched_x", 2)
        /\ Len(req[r].result.body) >= 2

\* --------------------------------------------------------------------- C21
ReaderKinds == {"single", "checkinLookup", "workerLookup"}

\* Reader r was asked for a session that the listing o returned.
Resolves(r, o) ==
    /\ req[r].kind \in ReaderKinds
    /\ req[o].kind = "list" /\ req[o].pc = "done" /\ req[o].result.code = 200

ListedSession(o, sessionId) ==
    CHOOSE s \in { req[o].result.body[i] : i \in 1 .. Len(req[o].result.body) } :
        s.sessionId = sessionId

\* C21: every session id the list reader returns is resolved, with the same
\* start (and so the same end, start plus the schedule's duration), by
\* single-session mode, by the check-in lookup and by the worker's lookup.
C21_ReadersAgree ==
    \A r, o \in Reqs :
        Resolves(r, o) =>
            /\ req[r].result.body # NoItem
            /\ req[r].result.body.start = ListedSession(o, req[r].sessionId).start

\* (C21, the part the code keeps: the worker's lookup, with its extended
\* window, resolves every listed session that is not a cancelled one with
\* the same start.)
C21_WorkerAgrees ==
    \A r, o \in Reqs :
        ( /\ Resolves(r, o) /\ req[r].kind = "workerLookup"
          /\ ~StoredCancelled(req[r].tenantId,
                              parseSessionId(req[r].sessionId).scheduleId,
                              parseSessionId(req[r].sessionId).date) ) =>
            /\ req[r].result.body # NoItem
            /\ req[r].result.body.start = ListedSession(o, req[r].sessionId).start

\* (C21: single-session mode and the check-in lookup agree with the listing
\* on every session that starts, in UTC, on the date of its id.)
C21_DayReadersAgreeOnUtcDate ==
    \A r, o \in Reqs :
        ( /\ Resolves(r, o) /\ req[r].kind # "workerLookup"
          /\ req[r].hourCycle = "h23"
          /\ getUTCDate(ListedSession(o, req[r].sessionId).start)
                = parseSessionId(req[r].sessionId).date )
        => /\ req[r].result.body # NoItem
           /\ req[r].result.body.start = ListedSession(o, req[r].sessionId).start

\* (C21 on its own: the readers are to resolve the listed sessions that are
\* not cancelled and whose local date lies inside the listing's window, on a
\* runtime that writes midnight as "00".)
C21_InWindowResolved ==
    \A r, o \in Reqs :
        ( /\ Resolves(r, o)
          /\ req[r].hourCycle = "h23"
          /\ <<parseSessionId(req[r].sessionId).scheduleId,
               parseSessionId(req[r].sessionId).date>>
                \in InWindow(req[o].tenantId, req[o].startDate, req[o].endDate) )
        => req[r].result.body # NoItem

\* --------------------------------------------------------------------- C22
\* The date, in the zone, of an instant.
LocalDate(instant, timezone) ==
    getUTCDate(instant + UtcOffset(timezone) * SecondsPerHour)

\* The listing of the example: sched_x starts Monday 2025-01-06 07:00
\* America/New_York with BYDAY=MO,WE,FR; window 2025-01-06..2025-01-10.
C22_Example(r) ==
    /\ Listed(r) /\ req[r].tenantId = T1
    /\ req[r].startDate = 0 /\ req[r].endDate = 4
    /\ schedules[T1, "sched_x"].timezone = "America/New_York"
    /\ schedules[T1, "sched_x"].start = [date |-> 0, hours |-> 7]
    /\ schedules[T1, "sched_x"].byday = {"MO", "WE", "FR"}

C22_EveningListed ==
    \E r \in Reqs :
        /\ Listed(r)
        /\ Len(req[r].result.body) > 0
        /\ schedules[T1, "sched_x"].start.hours = 23
        /\ schedules[T1, "sched_x"].timezone = "America/New_York"

\* --------------------------------------------------------------------- C23
\* The number of calendar dates of the window of listing r, both ends
\* counted.
DatesCovered(r) == req[r].endDate - req[r].startDate + 1

TooLargeAnswer ==
    [code |-> 400, msg |-> "Date range too large. Maximum 90 days", body |-> <<>>]

\* C23: a listing with a tenant and both dates is accepted iff its window
\* covers at most 90 calendar dates; otherwise it is answered 400 (range too
\* large) at once, no schedule having been read.
C23_NinetyDates ==
    \A r \in Reqs :
        ( /\ req[r].kind = "list"
          /\ req[r].tenantId # NoTenant
          /\ req[r].startDate # NoDate /\ req[r].endDate # NoDate )
        => IF DatesCovered(r) > 90
           THEN /\ req[r].pc = "done"
                /\ req[r].result = TooLargeAnswer
                /\ req[r].found = <<>> /\ req[r].queried = 0
           ELSE /\ req[r].result.code # 400
                /\ req[r].pc = "done" => req[r].result.code \in {200, 500}

\* A window of 91 dates was rejected.
C23_Witness ==
    \E r \in Reqs :
        /\ req[r].kind = "list" /\ req[r].tenantId = T1
        /\ DatesCovered(r) = 91
        /\ req[r].result = TooLargeAnswer

\* A window of 90 dates was listed, with a session in it.
C23_NinetyListed ==
    \E r \in Reqs :
        /\ Listed(r) /\ DatesCovered(r) = 90
        /\ Len(req[r].result.body) = 1


\* ---------------------------------------------------------------- C24
\* The step of check-in r that reads the session and applies the time window,
\* for a session that exists and a store that answers.
TimeChecked(r) ==
    /\ req[r].kind = "checkin"
    /\ req[r].pc = "exception"
    /\ req'[r].pc # "exception"
    /\ ~req'[r].fault
    /\ req'[r].result # Result(404, "Session not found")

\* C24: a check-in whose time differs from the session start by diff seconds
\* passes the time check iff -15 min <= diff <= +15 min, both bounds
\* inclusive on the unrounded difference; an earlier one is answered 400
\* "Too early", a later one 400 "Too late", and the rejected request writes
\* no attendance record.
C24_TimeWindow ==
    [][ \A r \in Reqs :
            TimeChecked(r) =>
                LET diff == req'[r].diff
                    passed == req'[r].pc \in {"location", "put"}
                IN  /\ passed <=> (diff >= -(15 * 60) /\ diff <= 15 * 60)
                    /\ diff < -(15 * 60) =>
                            req'[r].result = Result(400, "Too early to check in")
                    /\ diff > 15 * 60 =>
                            req'[r].result = Result(400, "Too late to check in")
                    /\ ~passed => req'[r].pc = "done" /\ attendance' = attendance ]_vars

\* C24 witness: one check-in 15 min 1 s after the start was answered
\* "Too late", another exactly 15 min after the start has passed the time
\* check, and no record has been written.
C24_Witness ==
    \E r, q \in Reqs :
        /\ req[r].kind = "checkin" /\ req[r].pc = "done"
        /\ req[r].diff = 15 * 60 + 1
        /\ req[r].result = Result(400, "Too late to check in")
        /\ req[q].kind = "checkin" /\ req[q].pc = "put"
        /\ req[q].diff = 15 * 60
        /\ attendance = {}


\* ---------------------------------------------------------------- C25
\* The step of check-in r that puts its attendance record.
RecordWritten(r) ==
    /\ req[r].kind = "checkin"
    /\ req[r].pc = "put"
    /\ req'[r].pc = "done"
    /\ ~req'[r].fault

\* The record of check-in r in the attendance table after its Put.
WrittenRecords(r) ==
    { a \in attendance' : /\ a.pk = BookingPk(req[r].tenantId, req[r].sessionId)
                          /\ a.bookingId = req[r].bookingId }

\* C25: an accepted check-in is recorded LATE iff its time is after the
\* session start by any amount (diff > 0 seconds), and PRESENT iff diff <= 0.
C25_LateIffAfterStart ==
    [][ \A r \in Reqs :
            RecordWritten(r) =>
                \A a \in WrittenRecords(r) :
                    /\ a.status = "LATE" <=> req[r].diff > 0
                    /\ a.status = "PRESENT" <=> req[r].diff <= 0 ]_vars

\* What the code does: the record is LATE iff the difference rounded to whole
\* minutes is positive, that is from 30 s after the start on.
C25_LateIffRoundedMinutesPositive ==
    [][ \A r \in Reqs :
            RecordWritten(r) =>
                /\ WrittenRecords(r) # {}
                /\ \A a \in WrittenRecords(r) :
                    /\ a.status = "LATE" <=> req[r].diff >= 30
                    /\ a.status = "PRESENT" <=> req[r].diff < 30 ]_vars


\* ---------------------------------------------------------------- C26
\* The radius (decimetres) that applies at a location.
RadiusAt(location) ==
    IF location.checkInRadiusMeters # NoRadius
    THEN location.checkInRadiusMeters * 10
    ELSE 100 * 10

\* The step of check-in r that reads the location, which has coordinates.
GpsChecked(r) ==
    /\ req[r].kind = "checkin"
    /\ req[r].pc = "location"
    /\ req'[r].pc # "location"
    /\ ~req'[r].fault
    /\ req'[r].location # NoItem
    /\ req'[r].location.coords

\* C26: a check-in that passed the time window and carries coordinates, for a
\* session whose location has coordinates, goes on to write its record iff
\* its distance is at most the location's checkInRadiusMeters (100 m when the
\* location stores none), and is otherwise answered 400 with nothing written;
\* the record it writes has checkInMethod GPS.  A check-in without
\* coordinates never reads the location and writes its record with
\* checkInMethod MANUAL.
C26_GpsRadius ==
    [][ \A r \in Reqs :
            /\ GpsChecked(r) =>
                    LET within == req[r].gps >= 0 /\ req[r].gps <= RadiusAt(req'[r].location)
                    IN  /\ req'[r].pc = "put" <=> within
                        /\ ~within => /\ req'[r].pc = "done"
                                       /\ req'[r].result.code = 400
                                       /\ attendance' = attendance
            /\ RecordWritten(r) =>
                    /\ WrittenRecords(r) # {}
                    /\ \A a \in WrittenRecords(r) :
                        IF req[r].gps = NoGps
                        THEN a.checkInMethod = "MANUAL" /\ req[r].location = NoItem
                        ELSE /\ a.checkInMethod = "GPS"
                             /\ req[r].location # NoItem /\ req[r].location.coords =>
                                    req[r].gps <= RadiusAt(req[r].location) ]_vars

\* C26 witness: at a location without a stored radius, a check-in 100.4 m
\* away was answered 400 and one exactly 100 m away has its GPS record
\* about to be written, with nothing written yet.
C26_Witness ==
    \E r, q \in Reqs :
        /\ req[r].kind = "checkin" /\ req[r].pc = "done"
        /\ req[r].gps = 1004
        /\ req[r].location = Location(TRUE, NoRadius)
        /\ req[r].result = Result(400, "Too far from location")
        /\ req[q].kind = "checkin" /\ req[q].pc = "put"
        /\ req[q].gps = 1000
        /\ req[q].location = Location(TRUE, NoRadius)
        /\ attendance = {}

\* C26, second witness: a record with checkInMethod MANUAL was written by a
\* check-in that sent no coordinates.
C26_ManualWritten ==
    \E r \in Reqs :
        /\ req[r].kind = "checkin" /\ req[r].pc = "done"
        /\ req[r].result.code = 201
        /\ \E a \in attendance : a.bookingId = req[r].bookingId /\ a.checkInMethod = "MANUAL"


\* ---------------------------------------------------------------- C27
\* The step of check-in r that loads the booking and checks it.
BookingChecked(r) ==
    /\ req[r].kind = "checkin"
    /\ req[r].pc = "find"
    /\ req'[r].pc # "find"
    /\ ~req'[r].fault

\* The booking named by check-in r, if the tenant has it.
NamedBookings(r) ==
    { b \in BookingIds : /\ b = req[r].bookingId
                         /\ bookings[b] # NoItem
                         /\ bookings[b].tenantId = req[r].tenantId }

\* C27: a check-in goes past its first step iff the booking it names exists
\* in the tenant, is CONFIRMED and, when the caller's subject is known,
\* belongs to the caller; otherwise it ends there and writes nothing: 404
\* for no such booking, 400 for a booking that is not CONFIRMED, 403 for
\* another subject's booking.  A record it writes is the record of a booking
\* of the tenant, with that booking's session and subject.
C27_OnlyConfirmedOwnBooking ==
    [][ \A r \in Reqs :
            /\ BookingChecked(r) =>
                    LET eligible ==
                            \E b \in NamedBookings(r) :
                                /\ bookings[b].status = "CONFIRMED"
                                /\ req[r].caller # None =>
                                        bookings[b].subjectId = req[r].caller
                    IN  /\ req'[r].pc = "attended" <=> eligible
                        /\ ~eligible =>
                            /\ req'[r].pc = "done"
                            /\ attendance' = attendance
                            /\ NamedBookings(r) = {} => req'[r].result.code = 404
                            /\ \A b \in NamedBookings(r) :
                                    IF bookings[b].status # "CONFIRMED"
                                    THEN req'[r].result.code = 400
                                    ELSE req'[r].result.code = 403
            /\ RecordWritten(r) =>
                    /\ NamedBookings(r) # {}
                    /\ \A b \in NamedBookings(r), a \in WrittenRecords(r) :
                            /\ a.tenantId = bookings[b].tenantId
                            /\ a.sessionId = bookings[b].sessionId
                            /\ a.subjectId = bookings[b].subjectId ]_vars

\* C27 witness: a check-in on the CANCELLED booking of u2 was answered 400,
\* one by u2 on the booking of u1 was answered 403, and nothing was written.
C27_Witness ==
    \E r, q \in Reqs :
        /\ bookings[2] # NoItem /\ bookings[2].status = "CANCELLED"
        /\ req[r].kind = "checkin" /\ req[r].pc = "done"
        /\ req[r].bookingId = 2
        /\ req[r].result = Result(400, "Cannot check in")
        /\ req[q].kind = "checkin" /\ req[q].pc = "done"
        /\ req[q].bookingId = 1
        /\ req[q].result = Result(403, "Not authorized")
        /\ attendance = {}

\* With cancels running next to check-ins, the booking is not always still
\* CONFIRMED when the record is put: a cancel may commit between the
\* check-in's first step and its Put.
C27_ConfirmedWhenWritten ==
    [][ \A r \in Reqs :
            RecordWritten(r) =>
                \A b \in NamedBookings(r) : bookings[b].status = "CONFIRMED" ]_vars


\* ---------------------------------------------------------------- C28
\* C28: the Put of a check-in leaves every attendance record that exists
\* already as it is, whatever its status and whoever wrote it.
C28_CheckInKeepsRecords ==
    [][ \A r \in Reqs :
            RecordWritten(r) => \A a \in attendance : a \in attendance' ]_vars

\* What the code does: only a record read with status PRESENT ends the
\* check-in, with 400 and nothing written.
C28_PresentEndsCheckIn ==
    [][ \A r \in Reqs :
            /\ req[r].kind = "checkin"
            /\ req[r].pc = "attended"
            /\ req'[r].pc # "attended"
            /\ ~req'[r].fault
            => LET existing == getAttendance(req[r].tenantId, req[r].sessionId,
                                             req[r].bookingId)
               IN  IF \E a \in existing : a.status = "PRESENT"
                   THEN /\ req'[r].result = Result(400, "Already checked in")
                        /\ attendance' = attendance
                   ELSE req'[r].pc = "schedule" ]_vars


\* ------------------------------------------------------ SchedulesService
\* An RRULE string is the sequence of its NAME=value parts; the empty string
\* is no rule.
NoRRule == <<>>

RRuleStrings ==
    { << <<"FREQ", "DAILY">>, <<"COUNT", "30">> >>,
      << <<"FREQ", "WEEKLY">>, <<"BYDAY", "MO,WE,FR">> >>,
      << <<"FREQ", "WEEKLY">> >>,
      << <<"FREQ", "MONTHLY">>, <<"BYMONTHDAY", "15">> >>,
      << <<"FREQ", "MONTHLY">>, <<"BYDAY", "FR">>, <<"BYSETPOS", "-1">> >>,
      << <<"FREQ", "MONTHLY">>, <<"BYDAY", "1FR">> >>,
      << <<"FREQ", "YEARLY">> >>,
      << <<"FREQ", "DAILY">>, <<"BYHOUR", "9">> >>,
      << <<"FREQ", "DAILY">>, <<"BYFOO", "1">> >> }

\* The properties rrulestr knows; any other name makes it throw.
RRuleProperties ==
    {"FREQ", "INTERVAL", "COUNT", "UNTIL", "WKST", "BYDAY", "BYMONTHDAY",
     "BYMONTH", "BYSETPOS", "BYHOUR", "BYMINUTE", "BYSECOND", "BYYEARDAY",
     "BYWEEKNO"}

HasProperty(rruleStr, name) == \E i \in 1 .. Len(rruleStr) : rruleStr[i][1] = name

PropertyValue(rruleStr, name) ==
    IF HasProperty(rruleStr, name)
    THEN rruleStr[CHOOSE i \in 1 .. Len(rruleStr) : rruleStr[i][1] = name][2]
    ELSE None

\* rrulestr(rruleStr).origOptions: the options as written in the string.
\* BYDAY, with or without an ordinal, is kept in byweekday; bynweekday is
\* derived by the library later and is not among the written options.
rrulestr(rruleStr) ==
    [threw |-> \E i \in 1 .. Len(rruleStr) : rruleStr[i][1] \notin RRuleProperties,
     freq |-> PropertyValue(rruleStr, "FREQ"),
     byweekday |-> HasProperty(rruleStr, "BYDAY"),
     bysetpos |-> HasProperty(rruleStr, "BYSETPOS"),
     bynweekday |-> FALSE]

validateRRule(rruleStr) ==
    LET options == rrulestr(rruleStr)
    IN  IF options.threw
        THEN [valid |-> FALSE, error |-> "Invalid RRULE"]
        ELSE IF options.freq \notin {"DAILY", "WEEKLY", "MONTHLY"}
        THEN [valid |-> FALSE,
              error |-> "Only DAILY, WEEKLY, and MONTHLY frequencies are supported"]
        ELSE IF options.freq = "WEEKLY" /\ ~options.byweekday
        THEN [valid |-> FALSE, error |-> "WEEKLY frequency requires BYDAY"]
        ELSE IF options.freq = "MONTHLY" /\ (options.bysetpos \/ options.bynweekday)
        THEN [valid |-> FALSE, error |-> "Complex MONTHLY rules are not supported"]
        ELSE [valid |-> TRUE, error |-> None]

\* start and end are hours of one day; a missing one and one that is not a
\* date have their own values.
NoTime == 0
InvalidTime == -1

\* A request body is a record of the fields it carries.  What reading a field
\* that is not there yields: undefined, which is falsy.
Undefined ==
    [scheduleId |-> None, type |-> None, programId |-> None, start |-> NoTime,
     end |-> NoTime, timezone |-> None, isRecurring |-> FALSE, rrule |-> NoRRule]

Field(body, f) == IF f \in DOMAIN body THEN body[f] ELSE Undefined[f]

\* { ...current, ...body }
Spread(current, body) ==
    [f \in DOMAIN current \cup DOMAIN body |->
        IF f \in DOMAIN body THEN body[f] ELSE current[f]]

validateInput(body) ==
    IF Field(body, "type") \notin {"SESSION", "BLOCK"}
    THEN [valid |-> FALSE, error |-> "Invalid or missing type (must be SESSION or BLOCK)"]
    ELSE IF Field(body, "start") = NoTime
    THEN [valid |-> FALSE, error |-> "Missing required field: start"]
    ELSE IF Field(body, "end") = NoTime
    THEN [valid |-> FALSE, error |-> "Missing required field: end"]
    ELSE IF Field(body, "timezone") = None
    THEN [valid |-> FALSE, error |-> "Missing required field: timezone"]
    ELSE IF Field(body, "type") = "SESSION" /\ Field(body, "programId") = None
    THEN [valid |-> FALSE, error |-> "SESSION type requires programId"]
    ELSE IF Field(body, "isRecurring") /\ Field(body, "rrule") = NoRRule
    THEN [valid |-> FALSE, error |-> "Recurring schedules require an rrule"]
    ELSE IF Field(body, "start") = InvalidTime \/ Field(body, "end") = InvalidTime
    THEN [valid |-> FALSE, error |-> "Invalid date format for start or end"]
    ELSE IF Field(body, "end") <= Field(body, "start")
    THEN [valid |-> FALSE, error |-> "End time must be after start time"]
    ELSE [valid |-> TRUE, error |-> None]

\* The item create puts: the body's fields, then tenantId, scheduleId and
\* isRecurring (timestamps, creator and host keys are left out).
ScheduleItem(tenantId, scheduleId, body) ==
    Spread(body, [tenantId |-> tenantId, scheduleId |-> scheduleId,
                  isRecurring |-> Field(body, "isRecurring")])

\* The item update puts: the stored fields, then the body's, with tenantId
\* and scheduleId as stored.
UpdatedItem(current, body) ==
    Spread(Spread(current, body),
           [tenantId |-> current.tenantId, scheduleId |-> current.scheduleId])

\* POST bodies: every field with one of its values, or with one field left
\* out; the body without a scheduleId is one of a BLOCK.
BodyFields ==
    {"scheduleId", "type", "programId", "start", "end", "timezone",
     "isRecurring", "rrule"}

FullBodies ==
    [scheduleId : {"sched_x"}, type : {"SESSION", "BLOCK", "HOLD"},
     programId : {"p1"}, start : {2, InvalidTime}, end : {2, 3},
     timezone : {"UTC"}, isRecurring : BOOLEAN, rrule : RRuleStrings]

Pick(body, fields) == [f \in fields |-> body[f]]

CreateBodies ==
    { Pick(body, BodyFields) : body \in FullBodies }
    \cup { Pick(body, BodyFields \ {f}) :
                body \in { b \in FullBodies : b.type # "HOLD" /\ b.start = 2 /\ b.end = 3 },
                f \in BodyFields \ {"scheduleId"} }
    \cup { [type |-> "BLOCK", start |-> 2, end |-> 3, timezone |-> "UTC"] }

\* PATCH bodies: the scheduleId with at most one other field; one without a
\* scheduleId.
UpdateBodies ==
    { [scheduleId |-> "sched_x"], [end |-> 1] }
    \cup { [scheduleId |-> "sched_x", end |-> t] : t \in {1, 2, 3} }
    \cup { [scheduleId |-> "sched_x", start |-> 3] }
    \cup { [scheduleId |-> "sched_x", type |-> "SESSION"] }
    \cup { [scheduleId |-> "sched_x", isRecurring |-> b] : b \in BOOLEAN }
    \cup { [scheduleId |-> "sched_x", rrule |-> rule] : rule \in RRuleStrings }

\* generateId('sched'): an id no stored schedule has.
GeneratedScheduleId == "sched_y"

\* POST /scheduling/schedules up to its Put.
ScheduleCreateStart(r) ==
    /\ CanStart(r)
    /\ \E tenantId \in {T1, NoTenant}, body \in CreateBodies :
        LET rec == NewReq(r, "schedule_create")
            validation == validateInput(body)
            rruleValidation == validateRRule(Field(body, "rrule"))
            scheduleId == IF Field(body, "scheduleId") # None
                          THEN body.scheduleId ELSE GeneratedScheduleId
        IN  /\ tenantId = NoTenant => body = [type |-> "BLOCK", start |-> 2,
                                               end |-> 3, timezone |-> "UTC"]
            /\ IF tenantId = NoTenant
               THEN Respond(r, rec, 400, "Missing tenantId")
               ELSE IF ~validation.valid
               THEN Respond(r, rec, 400, validation.error)
               ELSE IF /\ Field(body, "isRecurring")
                       /\ Field(body, "rrule") # NoRRule
                       /\ ~rruleValidation.valid
               THEN Respond(r, rec, 400, rruleValidation.error)
               ELSE req' = [req EXCEPT ![r] =
                        [rec EXCEPT !.pc = "put", !.tenantId = tenantId,
                                    !.sched = ScheduleItem(tenantId, scheduleId, body)]]
    /\ UNCHANGED <<schedules, exceptions, summaries, bookings, attendance, bus>>

\* The Put of the schedule and the response: 201 for create, 200 for update.
SchedulePut(r) ==
    /\ req[r].kind \in {"schedule_create", "schedule_update"}
    /\ req[r].pc = "put"
    /\ LET rec == req[r]
       IN  /\ schedules' = [schedules EXCEPT ![rec.tenantId, rec.sched.scheduleId] = rec.sched]
           /\ Respond(r, rec, IF rec.kind = "schedule_create" THEN 201 ELSE 200, "stored")
    /\ UNCHANGED <<exceptions, summaries, bookings, attendance, bus>>

\* PATCH /scheduling/schedules up to its Get.
ScheduleUpdateStart(r) ==
    /\ CanStart(r)
    /\ \E tenantId \in {T1, NoTenant}, body \in UpdateBodies :
        LET rec == NewReq(r, "schedule_update")
        IN  /\ tenantId = NoTenant => body = [scheduleId |-> "sched_x"]
            /\ IF tenantId = NoTenant
               THEN Respond(r, rec, 400, "Missing tenantId")
               ELSE IF Field(body, "scheduleId") = None
               THEN Respond(r, rec, 400, "Missing scheduleId in body")
               ELSE req' = [req EXCEPT ![r] =
                        [rec EXCEPT !.pc = "get", !.tenantId = tenantId,
                                    !.sched = body]]
    /\ UNCHANGED <<schedules, exceptions, summaries, bookings, attendance, bus>>

\* The Get of the stored schedule, the check of the body's rrule, and the
\* merge.
ScheduleUpdateGet(r) ==
    /\ req[r].kind = "schedule_update"
    /\ req[r].pc = "get"
    /\ LET rec == req[r]
           body == rec.sched
           existing == schedules[rec.tenantId, body.scheduleId]
           rruleValidation == validateRRule(Field(body, "rrule"))
       IN  IF existing = NoItem
           THEN Respond(r, rec, 404, "Schedule not found")
           ELSE IF Field(body, "rrule") # NoRRule /\ ~rruleValidation.valid
           THEN Respond(r, rec, 400, rruleValidation.error)
           ELSE req' = [req EXCEPT ![r] =
                    [rec EXCEPT !.pc = "put", !.sched = UpdatedItem(existing, body)]]
    /\ UNCHANGED <<schedules, exceptions, summaries, bookings, attendance, bus>>

\* A store call of a schedule request fails: 500, nothing written.
ScheduleFault(r) ==
    /\ req[r].kind \in {"schedule_create", "schedule_update"}
    /\ req[r].pc \in {"get", "put"}
    /\ Respond(r, [req[r] EXCEPT !.fault = TRUE], 500, "StoreUnavailable")
    /\ UNCHANGED <<schedules, exceptions, summaries, bookings, attendance, bus>>

\* Schedules stored when the run starts, written by earlier creates: a
\* one-off SESSION, a BLOCK repeating weekly.
SeededSchedules ==
    { ScheduleItem(T1, "sched_x",
        [scheduleId |-> "sched_x", type |-> "SESSION", programId |-> "p1",
         start |-> 2, end |-> 3, timezone |-> "UTC"]),
      ScheduleItem(T1, "sched_x",
        [scheduleId |-> "sched_x", type |-> "BLOCK", start |-> 2, end |-> 3,
         timezone |-> "UTC", isRecurring |-> TRUE,
         rrule |-> << <<"FREQ", "WEEKLY">>, <<"BYDAY", "MO,WE,FR">> >>]) }

InitSchedules ==
    /\ \E seeded \in SeededSchedules \cup {NoItem} :
        schedules = [t \in Tenants, s \in ScheduleIds |->
                        IF t = T1 /\ s = "sched_x" THEN seeded ELSE NoItem]
    /\ exceptions = [k \in ExceptionKeys |-> NoItem]
    /\ summaries = [t \in Tenants, s \in SessionIds |-> NoItem]
    /\ bookings = [b \in BookingIds |-> NoItem]
    /\ attendance = {}
    /\ bus = [r \in Reqs |-> <<>>]
    /\ req = [r \in Reqs |-> IdleReq]

NextSchedules ==
    \E r \in Reqs :
        \/ ScheduleCreateStart(r)
        \/ ScheduleUpdateStart(r)
        \/ ScheduleUpdateGet(r)
        \/ SchedulePut(r)
        \/ ScheduleFault(r)

SpecSchedules == InitSchedules /\ [][NextSchedules]_vars

\* ---------------------------------------------------------------- C29
\* The schedules stored under tenant t1.
StoredSchedules ==
    { schedules[T1, s] : s \in { id \in ScheduleIds : schedules[T1, id] # NoItem } }

\* The rule profile: FREQ is DAILY, WEEKLY or MONTHLY; a WEEKLY rule has a
\* BYDAY of plain weekdays; a MONTHLY rule has no BYSETPOS and no BYDAY with
\* an ordinal; besides FREQ, BYDAY (WEEKLY) and BYMONTHDAY (MONTHLY) only
\* INTERVAL, UNTIL and COUNT occur.
InProfile(rruleStr) ==
    LET freq == PropertyValue(rruleStr, "FREQ")
        names == { rruleStr[i][1] : i \in 1 .. Len(rruleStr) }
    IN  /\ freq \in {"DAILY", "WEEKLY", "MONTHLY"}
        /\ freq = "WEEKLY" => HasProperty(rruleStr, "BYDAY")
        /\ PropertyValue(rruleStr, "BYDAY") \notin {"1FR"}
        /\ names \subseteq {"FREQ", "INTERVAL", "UNTIL", "COUNT"}
                           \cup (IF freq = "WEEKLY" THEN {"BYDAY"} ELSE {})
                           \cup (IF freq = "MONTHLY" THEN {"BYMONTHDAY"} ELSE {})

\* C29: the rrule of every stored recurring schedule is inside the profile
\* (a create or update with a rule outside of it is answered 400 and stores
\* nothing).
C29_RecurringRulesInProfile ==
    \A schedule \in StoredSchedules :
        schedule.isRecurring /\ Field(schedule, "rrule") # NoRRule =>
            InProfile(schedule.rrule)

\* What validateRRule rejects among the rules outside the profile: a rule
\* rrulestr cannot parse, another FREQ, WEEKLY without BYDAY, MONTHLY with
\* BYSETPOS.  A recurring schedule is never stored by create with such a rule.
C29_RejectedRulesNotCreated ==
    [][ \A r \in Reqs :
            /\ req[r].kind = "schedule_create"
            /\ req[r].pc = "put"
            /\ req[r].sched.isRecurring
            => LET rule == Field(req[r].sched, "rrule")
               IN  /\ rule # NoRRule
                   /\ \A i \in 1 .. Len(rule) : rule[i][1] \in RRuleProperties
                   /\ PropertyValue(rule, "FREQ") \in {"DAILY", "WEEKLY", "MONTHLY"}
                   /\ PropertyValue(rule, "FREQ") = "WEEKLY" => HasProperty(rule, "BYDAY")
                   /\ PropertyValue(rule, "FREQ") = "MONTHLY" =>
                            ~HasProperty(rule, "BYSETPOS") ]_vars

\* ---------------------------------------------------------------- C30
\* C30: every stored schedule has end > start, has an rrule inside the
\* profile when it is recurring, and has a programId when it is a SESSION.
C30_StoredSchedulesValid ==
    \A schedule \in StoredSchedules :
        /\ schedule.end > schedule.start
        /\ schedule.isRecurring =>
                /\ Field(schedule, "rrule") # NoRRule
                /\ InProfile(schedule.rrule)
        /\ schedule.type = "SESSION" => Field(schedule, "programId") # None

\* The parts of C30 that are about the rule left aside: end > start and the
\* programId of a SESSION.
C30_EndAfterStart ==
    \A schedule \in StoredSchedules : schedule.end > schedule.start

C30_SessionHasProgram ==
    \A schedule \in StoredSchedules :
        schedule.type = "SESSION" => Field(schedule, "programId") # None

C30_RecurringHasRule ==
    \A schedule \in StoredSchedules :
        schedule.isRecurring => Field(schedule, "rrule") # NoRRule

\* What create alone guarantees: the item it is about to put satisfies all of
\* validateInput's conditions.
C30_CreatedSchedulesValid ==
    \A r \in Reqs :
        req[r].kind = "schedule_create" /\ req[r].pc = "put" =>
            LET schedule == req[r].sched
            IN  /\ schedule.end > schedule.start
                /\ schedule.isRecurring => Field(schedule, "rrule") # NoRRule
                /\ schedule.type = "SESSION" => Field(schedule, "programId") # None


\* ------------------------------------------------------ time zones alone
\* Instants around a zone's transition: the half hours of the HoursAround
\* hours before and after it.
HoursAround == 14

ZoneInstants(timezone) ==
    { Transition(timezone).at + h * SecondsPerHour + SecondsPerHour \div 2 :
        h \in (0 - HoursAround) .. (HoursAround - 1) }

\* convertNaiveLocalToUtc after convertUtcToNaiveLocal, applied to an instant.
RoundTrip(r) ==
    /\ CanStart(r)
    /\ \E timezone \in DstZones, hourCycle \in HourCycles :
       \E instant \in ZoneInstants(timezone) :
        LET naive == convertUtcToNaiveLocal(instant, timezone, hourCycle)
        IN  req' = [req EXCEPT ![r] =
                [NewReq(r, "roundtrip") EXCEPT
                    !.pc = "done",
                    !.sched = [timezone |-> timezone, hourCycle |-> hourCycle,
                               instant |-> instant, naive |-> naive,
                               back |-> convertNaiveLocalToUtc(naive, timezone)]]]
    /\ UNCHANGED <<schedules, exceptions, summaries, bookings, attendance, bus>>

\* The Monday of the week of the zone's transition, and the days around the
\* transition.
ZoneMonday(timezone) == IF timezone = "America/New_York" THEN 56 ELSE 84

ZoneDays(timezone) ==
    IF timezone = "America/New_York" THEN {61, 62, 63} ELSE {88, 89, 90}

\* Exceptions of a date: none, an OVERRIDE of the capacity, an OVERRIDE that
\* moves the start to 10:00 of the same date or to 10:00 of the next date.
OverridesOf(date) ==
    { {},
      { [occurrenceDate |-> date, type |-> "OVERRIDE", overrideCapacity |-> 1] },
      { [occurrenceDate |-> date, type |-> "OVERRIDE", overrideCapacity |-> NoCap,
         overrideStart |-> DateUTC(date, 10, 0)] },
      { [occurrenceDate |-> date, type |-> "OVERRIDE", overrideCapacity |-> NoCap,
         overrideStart |-> DateUTC(date + 1, 10, 0)] } }

\* generateSessions applied to a schedule of a zone with a transition, daily
\* from the Monday of the transition's week or once on the date, for the
\* window of one date.
Materialize(r) ==
    /\ CanStart(r)
    /\ \E timezone \in DstZones, hours \in {1, 8, 23}, isRecurring \in BOOLEAN :
       \E date \in ZoneDays(timezone) :
       \E scheduleExceptions \in OverridesOf(date) :
        LET schedule ==
                SessionSchedule("sched_x", timezone,
                    IF isRecurring THEN ZoneMonday(timezone) ELSE date, hours,
                    isRecurring, {"MO", "TU", "WE", "TH", "FR", "SA", "SU"})
            sessions ==
                generateSessions(schedule, DateUTC(date - 1, 0, 0),
                                 DateUTC(date + 1, 23, 3599), scheduleExceptions, "h23")
        IN  req' = [req EXCEPT ![r] =
                [NewReq(r, "materialize") EXCEPT
                    !.pc = "done",
                    !.sched = [timezone |-> timezone,
                               exceptions |-> scheduleExceptions,
                               sessions |-> sessions]]]
    /\ UNCHANGED <<schedules, exceptions, summaries, bookings, attendance, bus>>

InitZones ==
    /\ schedules = [t \in Tenants, s \in ScheduleIds |-> NoItem]
    /\ exceptions = [k \in ExceptionKeys |-> NoItem]
    /\ summaries = [t \in Tenants, s \in SessionIds |-> NoItem]
    /\ bookings = [b \in BookingIds |-> NoItem]
    /\ attendance = {}
    /\ bus = [r \in Reqs |-> <<>>]
    /\ req = [r \in Reqs |-> IdleReq]

NextZones == \E r \in Reqs : RoundTrip(r) \/ Materialize(r)

SpecZones == InitZones /\ [][NextZones]_vars

\* ---------------------------------------------------------------- C31
\* The calendar date of an instant in a zone.
LocalDateAt(instant, timezone) ==
    getUTCDate(instant + UtcOffsetAt(timezone, instant) * SecondsPerHour)

\* The sessions a task materialized.
Materialized(r) ==
    IF req[r].kind = "materialize" /\ req[r].pc = "done"
    THEN req[r].sched.sessions ELSE {}

\* C31: for every materialized session, with or without an OVERRIDE and
\* around the zone's transition, the date of the session id and the date
\* field are the local calendar date of the session's start.
C31_DateIsLocalDateOfStart ==
    \A r \in Reqs :
        \A session \in Materialized(r) :
            LET local == LocalDateAt(session.start, req[r].sched.timezone)
            IN  /\ session.date = local
                /\ session.sessionId = generateSessionId(session.scheduleId, local)

\* The same for the sessions whose start no exception replaces: it fails
\* for an evening session of Pacific/Auckland on the eve of the transition.
C31_PlainSessionsDated ==
    \A r \in Reqs :
        \A session \in Materialized(r) :
            (\A e \in req[r].sched.exceptions : "overrideStart" \notin DOMAIN e) =>
                session.date = LocalDateAt(session.start, req[r].sched.timezone)

\* What holds: the date of the session id and the date field are the date of
\* the occurrence in naive local time, which is the local date of the start
\* computed with the zone's offset at the naive time read as UTC, when no
\* exception replaces the start.
C31_DateIsNaiveDate ==
    \A r \in Reqs :
        \A session \in Materialized(r) :
            /\ session.sessionId = generateSessionId(session.scheduleId, session.date)
            /\ (\A e \in req[r].sched.exceptions : "overrideStart" \notin DOMAIN e) =>
                \E naive \in { DateUTC(session.date, h, 0) : h \in 0 .. 23 } :
                    session.start = naive - UtcOffsetAt(req[r].sched.timezone, naive)
                                                * SecondsPerHour

\* ---------------------------------------------------------------- C32
\* An instant whose local time occurs once: not within the hour before or the
\* hour after a transition that sets the clocks back.
Unambiguous(timezone, instant) ==
    LET t == Transition(timezone)
    IN  t.after < t.before =>
            \/ instant < t.at - (t.before - t.after) * SecondsPerHour
            \/ instant >= t.at + (t.before - t.after) * SecondsPerHour

\* C32: in a zone with a transition, convertNaiveLocalToUtc after
\* convertUtcToNaiveLocal gives back every instant whose local time is
\* unambiguous, the instants within hours of the transition included.
C32_RoundTripIsIdentity ==
    \A r \in Reqs :
        /\ req[r].kind = "roundtrip" /\ req[r].pc = "done"
        /\ Unambiguous(req[r].sched.timezone, req[r].sched.instant)
        => req[r].sched.back = req[r].sched.instant

\* What holds: the round trip gives back the instants at which the zone's
\* offset is the same as one offset later (the instant's local time read as
\* UTC), on a runtime that writes midnight as 00.
C32_RoundTripAwayFromTransition ==
    \A r \in Reqs :
        req[r].kind = "roundtrip" /\ req[r].pc = "done" =>
            LET zone == req[r].sched.timezone
                instant == req[r].sched.instant
                offset == UtcOffsetAt(zone, instant)
            IN  /\ req[r].sched.hourCycle = "h23"
                /\ UtcOffsetAt(zone, instant + offset * SecondsPerHour) = offset
                => (req[r].sched.back = instant)


\* ------------------------------------- schedule and exception writes
\* The writes to the schedules and exceptions tables that change what a
\* create resolves: PATCH /schedules with a baseCapacity, DELETE /schedules,
\* POST /exceptions.  Each handler validates its input, reads with one Get
\* (one step) and writes with one Put or Delete (one step).  The items are
\* those of the booking model: Schedule(baseCapacity, occurs) and
\* Exception(type, overrideCapacity).
AdminKinds == {"schedule_update", "schedule_delete", "exception_create"}

AdminSchedules == {"sched_x", "sched_y", None}

\* SchedulesService.update up to the result of its Get.  The body carries
\* scheduleId and a numeric baseCapacity.
CapacityUpdateGet(r) ==
    /\ CanStart(r)
    /\ \E tenantId \in {T1, NoTenant}, scheduleId \in AdminSchedules,
          baseCapacity \in 0 .. MaxCap :
        LET rec == [NewReq(r, "schedule_update") EXCEPT
                        !.tenantId = tenantId,
                        !.sessionId = <<scheduleId, None>>]
        IN  IF tenantId = NoTenant
            THEN Respond(r, rec, 400, "Missing tenantId")
            ELSE IF scheduleId = None
            THEN Respond(r, rec, 400, "Missing scheduleId in body")
            ELSE IF schedules[tenantId, scheduleId] = NoItem
            THEN Respond(r, rec, 404, "Schedule not found")
            ELSE req' = [req EXCEPT ![r] =
                    [rec EXCEPT !.pc = "put", !.capacity = baseCapacity,
                                !.sched = schedules[tenantId, scheduleId]]]
    /\ UNCHANGED <<schedules, exceptions, summaries, bookings, attendance, bus>>

\* The Put of SchedulesService.update: { ...current, ...body } under the key
\* of the item read, with no condition.
CapacityUpdatePut(r) ==
    /\ req[r].kind = "schedule_update"
    /\ req[r].pc = "put"
    /\ LET rec == req[r]
       IN  /\ schedules' = [schedules EXCEPT ![rec.tenantId, rec.sessionId[1]] =
                    [rec.sched EXCEPT !.baseCapacity = rec.capacity]]
           /\ Respond(r, rec, 200, "updated")
    /\ UNCHANGED <<exceptions, summaries, bookings, attendance, bus>>

\* SchedulesService.delete up to the result of its Get.
ScheduleDeleteGet(r) ==
    /\ CanStart(r)
    /\ \E tenantId \in {T1, NoTenant}, scheduleId \in AdminSchedules :
        LET rec == [NewReq(r, "schedule_delete") EXCEPT
                        !.tenantId = tenantId,
                        !.sessionId = <<scheduleId, None>>]
        IN  IF tenantId = NoTenant \/ scheduleId = None
            THEN Respond(r, rec, 400, "Missing tenantId or scheduleId")
            ELSE IF schedules[tenantId, scheduleId] = NoItem
            THEN Respond(r, rec, 404, "Schedule not found")
            ELSE req' = [req EXCEPT ![r] = [rec EXCEPT !.pc = "delete"]]
    /\ UNCHANGED <<schedules, exceptions, summaries, bookings, attendance, bus>>

\* The DeleteCommand of SchedulesService.delete.
ScheduleDeleteCommit(r) ==
    /\ req[r].kind = "schedule_delete"
    /\ req[r].pc = "delete"
    /\ LET rec == req[r]
       IN  /\ schedules' = [schedules EXCEPT ![rec.tenantId, rec.sessionId[1]] = NoItem]
           /\ Respond(r, rec, 200, "deleted")
    /\ UNCHANGED <<exceptions, summaries, bookings, attendance, bus>>

\* ScheduleExceptionsService.create up to the result of its Get of the
\* schedule.  The body carries scheduleId, occurrenceDate, type and possibly an
\* overrideCapacity.
ExceptionCreateGet(r) ==
    /\ CanStart(r)
    /\ \E tenantId \in {T1, NoTenant}, scheduleId \in AdminSchedules,
          type \in {"CANCELLED", "OVERRIDE", "FOO"}, overrideCapacity \in Capacities :
        LET rec == [NewReq(r, "exception_create") EXCEPT
                        !.tenantId = tenantId,
                        !.sessionId = <<scheduleId, "d1">>]
        IN  /\ type # "OVERRIDE" => overrideCapacity = NoCap
            /\ IF tenantId = NoTenant
               THEN Respond(r, rec, 400, "Missing tenantId")
               ELSE IF scheduleId = None
               THEN Respond(r, rec, 400, "Missing scheduleId")
               ELSE IF type \notin {"CANCELLED", "OVERRIDE"}
               THEN Respond(r, rec, 400, "Invalid type (must be CANCELLED or OVERRIDE)")
               ELSE IF schedules[tenantId, scheduleId] = NoItem
               THEN Respond(r, rec, 404, "Schedule not found")
               ELSE req' = [req EXCEPT ![r] =
                       [rec EXCEPT !.pc = "put",
                                   !.sched = Exception(type, overrideCapacity)]]
    /\ UNCHANGED <<schedules, exceptions, summaries, bookings, attendance, bus>>

\* The Put of ScheduleExceptionsService.create, with no condition: it replaces
\* an exception stored under the same key.
ExceptionCreatePut(r) ==
    /\ req[r].kind = "exception_create"
    /\ req[r].pc = "put"
    /\ LET rec == req[r]
           key == <<ExceptionPk(rec.tenantId, rec.sessionId[1]), rec.sessionId[2]>>
       IN  /\ exceptions' = [exceptions EXCEPT ![key] = rec.sched]
           /\ Respond(r, rec, 201, "created")
    /\ UNCHANGED <<schedules, summaries, bookings, attendance, bus>>

\* One schedule of tenant t1 with the bookings made so far on its session d1,
\* which has no exception; d2 is cancelled or not an occurrence.
InitAdmin ==
    /\ Init
    /\ \A k \in ExceptionKeys : exceptions[k] = NoItem \/ exceptions[k].type = "CANCELLED"

NextAdmin ==
    \E r \in Reqs :
        \/ HttpCreateStart(r)
        \/ EventStart(r)
        \/ ReadSchedule(r)
        \/ ReadException(r)
        \/ FindExisting(r)
        \/ HttpTransact(r)
        \/ EventTransact(r)
        \/ Emit(r)
        \/ CancelStart(r)
        \/ CancelFind(r)
        \/ CancelTransact(r)
        \/ CapacityUpdateGet(r)
        \/ CapacityUpdatePut(r)
        \/ ScheduleDeleteGet(r)
        \/ ScheduleDeleteCommit(r)
        \/ ExceptionCreateGet(r)
        \/ ExceptionCreatePut(r)

SpecAdmin == InitAdmin /\ [][NextAdmin]_vars

\* ------------------------------------------- ScheduleExceptionsService
\* POST and PATCH /scheduling/exceptions with the items as the service stores
\* them: a record whose DOMAIN is the set of attributes present.  A
\* scheduleId that comes from a request body is kept as its '#'-parts.
ExceptionTypes == {"CANCELLED", "OVERRIDE"}

\* Key { pk: `${tenantId}#${body.scheduleId}`, occurrenceDate }.
ExceptionKeyOf(tenantId, scheduleId, occurrenceDate) ==
    <<tenantId \o scheduleId, occurrenceDate>>

\* Get from the exceptions table by that key.
GetExceptionItem(tenantId, scheduleId, occurrenceDate) ==
    LET key == ExceptionKeyOf(tenantId, scheduleId, occurrenceDate)
    IN  IF key \in DOMAIN exceptions THEN exceptions[key] ELSE NoItem

\* Get from the schedules table by Key { tenantId, scheduleId }: the ids of
\* the stored schedules are generated and hold no '#'.
GetScheduleItem(tenantId, scheduleId) ==
    IF Len(scheduleId) = 1 /\ scheduleId[1] \in ScheduleIds
    THEN schedules[tenantId, scheduleId[1]]
    ELSE NoItem

\* now() as task r reads it; the items stored at the start carry 0.
NowOf(r) == r

\* The item create puts: { ...body, tenantId, scheduleId, occurrenceDate,
\* createdAt, updatedAt, pk }.
NewException(tenantId, body, timestamp) ==
    Spread(body, [tenantId |-> tenantId, scheduleId |-> body.scheduleId,
                  occurrenceDate |-> body.occurrenceDate,
                  createdAt |-> timestamp, updatedAt |-> timestamp,
                  pk |-> tenantId \o body.scheduleId])

\* The item update puts: { ...current, ...body, tenantId, scheduleId,
\* occurrenceDate, pk, createdAt as stored, type: body.type ?? current.type,
\* updatedAt }.
UpdatedException(current, body, timestamp) ==
    Spread(Spread(current, body),
           [tenantId |-> current.tenantId, scheduleId |-> current.scheduleId,
            occurrenceDate |-> current.occurrenceDate, pk |-> current.pk,
            createdAt |-> current.createdAt,
            type |-> IF "type" \in DOMAIN body THEN body.type ELSE current.type,
            updatedAt |-> timestamp])

\* The scheduleId values of request bodies: the two stored ids and an id with
\* a '#' in it.
BodyScheduleIds == {<<"sched_x">>, <<"sched_y">>, <<"sched_x", "sched_y">>}

\* POST bodies: scheduleId, occurrenceDate and type, with at most one of
\* them missing or invalid, and possibly one more attribute.
PostExceptionBodies ==
    LET base == { [scheduleId |-> s, occurrenceDate |-> "d1", type |-> t] :
                    s \in BodyScheduleIds, t \in ExceptionTypes \cup {"FOO"} }
        plain == [scheduleId |-> <<"sched_x">>, occurrenceDate |-> "d1", type |-> "OVERRIDE"]
    IN  base
        \cup { Pick(plain, DOMAIN plain \ {f}) : f \in DOMAIN plain }
        \cup { [plain EXCEPT !.occurrenceDate = "2025-1-6"] }
        \cup { Spread(plain, extra) :
                 extra \in { [overrideCapacity |-> 1], [tenantId |-> T2],
                             [createdAt |-> 9], [pk |-> T2 \o <<"sched_y">>] } }

\* PATCH bodies: scheduleId and occurrenceDate, possibly one of them missing,
\* possibly one more attribute.
PatchExceptionBodies ==
    LET keys == { [scheduleId |-> s, occurrenceDate |-> "d1"] : s \in BodyScheduleIds }
    IN  keys
        \cup { [scheduleId |-> <<"sched_x">>], [occurrenceDate |-> "d1"] }
        \cup { Spread(k, extra) :
                 k \in keys,
                 extra \in { [type |-> "CANCELLED"], [type |-> "OVERRIDE"],
                             [type |-> "FOO"], [overrideCapacity |-> 2],
                             [tenantId |-> T2], [createdAt |-> 9],
                             [pk |-> T2 \o <<"sched_y">>], [updatedAt |-> 9] } }

\* ScheduleExceptionsService.create up to the result of its Get of the
\* schedule.
PostExceptionGet(r) ==
    /\ CanStart(r)
    /\ \E tenantId \in Tenants \cup {NoTenant}, body \in PostExceptionBodies :
        LET rec == [NewReq(r, "exception_post") EXCEPT !.tenantId = tenantId]
        IN  /\ tenantId = NoTenant => body = [scheduleId |-> <<"sched_x">>]
            /\ IF tenantId = NoTenant
               THEN Respond(r, rec, 400, "Missing tenantId")
               ELSE IF "scheduleId" \notin DOMAIN body
               THEN Respond(r, rec, 400, "Missing scheduleId")
               ELSE IF "occurrenceDate" \notin DOMAIN body \/ body.occurrenceDate \notin Dates
               THEN Respond(r, rec, 400, "Missing or invalid occurrenceDate (use YYYY-MM-DD)")
               ELSE IF "type" \notin DOMAIN body \/ body.type \notin ExceptionTypes
               THEN Respond(r, rec, 400, "Invalid type (must be CANCELLED or OVERRIDE)")
               ELSE IF GetScheduleItem(tenantId, body.scheduleId) = NoItem
               THEN Respond(r, rec, 404, "Schedule not found")
               ELSE req' = [req EXCEPT ![r] =
                       [rec EXCEPT !.pc = "put",
                                   !.sched = NewException(tenantId, body, NowOf(r))]]
    /\ UNCHANGED <<schedules, exceptions, summaries, bookings, attendance, bus>>

\* ScheduleExceptionsService.update up to the result of its Get of the
\* exception, with the item to put built from the item read.  The request
\* keeps the scheduleId and occurrenceDate it asked for (as `sessionId`).
PatchExceptionGet(r) ==
    /\ CanStart(r)
    /\ \E tenantId \in Tenants \cup {NoTenant}, body \in PatchExceptionBodies :
        LET rec == [NewReq(r, "exception_patch") EXCEPT !.tenantId = tenantId]
        IN  /\ tenantId = NoTenant => body = [scheduleId |-> <<"sched_x">>]
            /\ IF tenantId = NoTenant
               THEN Respond(r, rec, 400, "Missing tenantId")
               ELSE IF "scheduleId" \notin DOMAIN body \/ "occurrenceDate" \notin DOMAIN body
               THEN Respond(r, rec, 400, "Missing scheduleId or occurrenceDate")
               ELSE LET current == GetExceptionItem(tenantId, body.scheduleId,
                                                    body.occurrenceDate)
                        asked == body.scheduleId \o <<body.occurrenceDate>>
                    IN  IF current = NoItem
                        THEN Respond(r, [rec EXCEPT !.sessionId = asked], 404,
                                     "Exception not found")
                        ELSE req' = [req EXCEPT ![r] =
                                [rec EXCEPT !.pc = "put", !.sessionId = asked,
                                            !.sched = UpdatedException(current, body,
                                                                       NowOf(r))]]
    /\ UNCHANGED <<schedules, exceptions, summaries, bookings, attendance, bus>>

\* The Put of create (201) and of update (200): the item replaces the one
\* stored under its key (pk, occurrenceDate); no condition.
ExceptionItemPut(r) ==
    /\ req[r].kind \in {"exception_post", "exception_patch"}
    /\ req[r].pc = "put"
    /\ LET rec == req[r]
           key == <<rec.sched.pk, rec.sched.occurrenceDate>>
       IN  /\ exceptions' = [exceptions EXCEPT ![key] = rec.sched]
           /\ Respond(r, rec, IF rec.kind = "exception_post" THEN 201 ELSE 200, "stored")
    /\ UNCHANGED <<schedules, summaries, bookings, attendance, bus>>

\* Tenant "t1" with schedule sched_x and tenant "t1#sched_x" with schedule
\* sched_y; no exception yet, or the OVERRIDE an earlier POST of tenant "t1"
\* stored for sched_x on d1.
InitExceptions ==
    /\ \E seeded \in {NoItem,
                      NewException(T1, [scheduleId |-> <<"sched_x">>,
                                        occurrenceDate |-> "d1", type |-> "OVERRIDE",
                                        overrideCapacity |-> 1], 0)} :
        exceptions = [k \in ExceptionKeys |->
                        IF k = ExceptionKeyOf(T1, <<"sched_x">>, "d1")
                        THEN seeded ELSE NoItem]
    /\ schedules = [t \in Tenants, s \in ScheduleIds |->
            IF (t = T1 /\ s = "sched_x") \/ (t = T2 /\ s = "sched_y")
            THEN Schedule(NoCap, {"d1"}) ELSE NoItem]
    /\ summaries = [t \in Tenants, s \in SessionIds |-> NoItem]
    /\ bookings = [b \in BookingIds |-> NoItem]
    /\ attendance = {}
    /\ bus = [r \in Reqs |-> <<>>]
    /\ req = [r \in Reqs |-> IdleReq]

NextExceptions ==
    \E r \in Reqs :
        \/ PostExceptionGet(r)
        \/ PatchExceptionGet(r)
        \/ ExceptionItemPut(r)

SpecExceptions == InitExceptions /\ [][NextExceptions]_vars

\* ------------------------------------------------- after a double cancel
\* The store after two overlapping cancels of booking 1 of session d1, both
\* of which passed their status check before either committed: booking 1 is
\* CANCELLED, booking 2 of the same session is CONFIRMED, and the counter
\* that stood at 2 was decremented twice; or the store with both bookings
\* CONFIRMED and counted.
InitCancels ==
    \E cap \in {MaxCap, NoCap}, raced \in BOOLEAN :
        /\ schedules = [t \in Tenants, s \in ScheduleIds |->
                IF t = T1 /\ s = "sched_x" THEN Schedule(cap, {"d1"}) ELSE NoItem]
        /\ exceptions = [k \in ExceptionKeys |-> NoItem]
        /\ summaries = [t \in Tenants, s \in SessionIds |->
                IF t = T1 /\ s = S1
                THEN Summary(IF raced THEN 0 ELSE 2, cap)
                ELSE NoItem]
        /\ bookings = [b \in BookingIds |->
                IF b = 1
                THEN Booking(T1, S1, SeedSubject(1),
                             IF raced THEN "CANCELLED" ELSE "CONFIRMED", "api")
                ELSE IF b = 2
                THEN Booking(T1, S1, SeedSubject(2), "CONFIRMED", "api")
                ELSE NoItem]
        /\ attendance = {}
        /\ bus = [r \in Reqs |-> <<>>]
        /\ req = [r \in Reqs |-> IdleReq]

SpecCancels == InitCancels /\ [][Next]_vars

\* ------------------------------------------------------------ claims C33..
\* The cancel of task r sends its transaction in this step while the summary
\* of the booking's session is absent or its bookedCount is 0.
CancelsAtZero(r) ==
    /\ req[r].kind = "cancel"
    /\ Transacts(r)
    /\ BookedCount(req[r].tenantId, req[r].sessionId) = 0

\* C33: SessionSummary.bookedCount is never negative; a cancel whose
\* transaction is sent while the session's summary is absent or its
\* bookedCount is 0 fails as a whole: it answers with an error (500) and
\* leaves every booking (so the one it names keeps its status, CONFIRMED if
\* it was) and every counter as they were.
C33_CountNeverNegative ==
    /\ [](\A t \in Tenants, s \in SessionIds : BookedCount(t, s) >= 0)
    /\ [][ \A r \in Reqs :
             CancelsAtZero(r) =>
                /\ req'[r].result.code = 500
                /\ bookings' = bookings
                /\ summaries' = summaries ]_vars

\* C33 witness: a cancel of a CONFIRMED booking whose transaction the store
\* cancelled (no fault of the store itself) because the session has no
\* summary or a bookedCount of 0; the booking is still CONFIRMED.
C33_Witness ==
    \E c \in Reqs :
        /\ req[c].kind = "cancel"
        /\ Finished(c) /\ ~req[c].fault
        /\ req[c].result = Result(500, "Transaction cancelled")
        /\ bookings[req[c].bookingId] # NoItem
        /\ bookings[req[c].bookingId].status = "CONFIRMED"
        /\ BookedCount(req[c].tenantId, req[c].sessionId) = 0


\* Task a has committed a write of the capacity of session s of tenant t: a
\* PATCH of the schedule's baseCapacity or a POST of an exception of its date.
CapacityWritten(a, t, s) ==
    /\ req[a].kind \in {"schedule_update", "exception_create"}
    /\ Finished(a)
    /\ req[a].result.code \in {200, 201}
    /\ req[a].tenantId = t
    /\ req[a].sessionId[1] = parseSessionId(s).scheduleId

\* The create of task r, which arrived after the write of its session's
\* capacity by an earlier task had been answered, sends its transaction in
\* this step, while the session's resolved capacity is a number not above its
\* bookedCount.
CreatesAtLoweredCapacity(r) ==
    /\ req[r].kind \in CreateKinds
    /\ Transacts(r)
    /\ req[r].sequential
    /\ \E a \in 1 .. (r - 1) : CapacityWritten(a, req[r].tenantId, req[r].sessionId)
    /\ StoredCapacity(req[r].tenantId, req[r].sessionId) # NoCap
    /\ BookedCount(req[r].tenantId, req[r].sessionId)
         >= StoredCapacity(req[r].tenantId, req[r].sessionId)

\* The create of task r is refused in this step and no counter changes.
RefusedAtCapacity(r) ==
    /\ ~CreateAcknowledged(r)
    /\ req[r].kind = "create" => req'[r].result = Result(409, "Session is at capacity")
    /\ summaries' = summaries
    /\ bookings' = bookings

\* C34: once the resolved capacity of a session has been written to a value
\* C' <= bookedCount (PATCH of baseCapacity or an OVERRIDE with an
\* overrideCapacity), every create on it that arrives afterwards is refused
\* (409 over HTTP) and bookedCount does not increase, as long as bookedCount
\* is not below C'.
C34_LoweredCapacityRefuses ==
    [][ \A r \in Reqs : CreatesAtLoweredCapacity(r) => RefusedAtCapacity(r) ]_vars

\* The same for the sessions that have a summary (every session that was
\* ever booked, and with it every C' >= 1).
C34_LoweredBelowCountRefuses ==
    [][ \A r \in Reqs :
          (/\ CreatesAtLoweredCapacity(r)
           /\ summaries[req[r].tenantId, req[r].sessionId] # NoItem)
             => RefusedAtCapacity(r) ]_vars

\* A create refused after the capacity was lowered to the count of a booked
\* session.
C34_RefusedAfterLowering ==
    \E r, a \in Reqs :
        /\ req[r].kind = "create"
        /\ req[r].sequential
        /\ a < r
        /\ CapacityWritten(a, req[r].tenantId, req[r].sessionId)
        /\ req[r].result = Result(409, "Session is at capacity")
        /\ StoredCapacity(req[r].tenantId, req[r].sessionId) = 1
        /\ BookedCount(req[r].tenantId, req[r].sessionId) = 1


\* The create of task r commits its transaction in this step.
CreateCommitsNow(r) ==
    /\ req[r].kind \in CreateKinds
    /\ Transacts(r)
    /\ CreateAcknowledged(r)

\* The capacity attribute of the summary of session s of tenant t.
SummaryCapacity(sums, t, s) ==
    IF sums[t, s] = NoItem THEN NoCap ELSE sums[t, s].capacity

\* The steps that must leave every SessionSummary.capacity as it was: the
\* transaction of a cancel and of a create that resolved no capacity.
C35_CapacityKept ==
    \A r \in Reqs :
        (/\ Transacts(r)
         /\ \/ req[r].kind = "cancel"
            \/ req[r].kind \in CreateKinds /\ req[r].capacity = NoCap)
          => \A t \in Tenants, s \in SessionIds :
                SummaryCapacity(summaries', t, s) = SummaryCapacity(summaries, t, s)

\* C35: after every successful create that resolved a bound, the summary's
\* capacity equals the session's resolved capacity (overrideCapacity ??
\* baseCapacity) as the store holds it when the transaction commits, also
\* when the schedule or the exception is written while the create runs; a
\* cancel and a create without a bound leave the summary's capacity as it was.
C35_SummaryCapacityIsStored ==
    [][ /\ \A r \in Reqs :
            (CreateCommitsNow(r) /\ req[r].capacity # NoCap)
              => SummaryCapacity(summaries', req[r].tenantId, req[r].sessionId)
                   = StoredCapacity(req[r].tenantId, req[r].sessionId)
        /\ C35_CapacityKept ]_vars

\* What the code keeps: the summary's capacity is the capacity the create
\* resolved at its reads, whatever was written to the schedule or the
\* exception between the reads and the commit.
C35_SummaryCapacityIsResolved ==
    [][ /\ \A r \in Reqs :
            (CreateCommitsNow(r) /\ req[r].capacity # NoCap)
              => SummaryCapacity(summaries', req[r].tenantId, req[r].sessionId)
                   = req[r].capacity
        /\ C35_CapacityKept ]_vars


\* C38: a create whose transaction commits after a CANCELLED exception for
\* its (scheduleId, date) or the deletion of its schedule was committed does
\* not produce a CONFIRMED booking, wherever the exception / schedule write
\* falls between the create's session-resolution reads and its transaction.
C38_NoBookingOnCancelledSession ==
    [][ \A r \in Reqs :
          (/\ req[r].kind \in CreateKinds
           /\ Transacts(r)
           /\ ~Bookable(req[r].tenantId, req[r].sessionId))
             => /\ ~CreateAcknowledged(r)
                /\ bookings' = bookings ]_vars

\* The reads of a create refuse a session that does not resolve at the moment
\* of the read: the schedule read ends the create when the schedule is not
\* stored, the exception read ends it when the exception is CANCELLED.
C38_ReadsRefuseCancelledSession ==
    [][ \A r \in Reqs :
          LET id == parseSessionId(req[r].sessionId)
              exception == GetException(req[r].tenantId, id.scheduleId, id.date)
          IN  (/\ req[r].kind \in CreateKinds
               /\ req'[r].pc # req[r].pc
               /\ \/ /\ req[r].pc = "schedule"
                     /\ schedules[req[r].tenantId, id.scheduleId] = NoItem
                  \/ /\ req[r].pc = "exception"
                     /\ exception # NoItem
                     /\ exception.type = "CANCELLED")
                => /\ req'[r].pc \in {"done", "emit"}
                   /\ ~CreateAcknowledged(r)
                   /\ bookings' = bookings
                   /\ summaries' = summaries ]_vars


\* The CONFIRMED bookings of subject u on session s of tenant t.
ConfirmedOf(t, s, u) ==
    { b \in ConfirmedBookings(t, s) : bookings[b].subjectId = u }

\* C37: in every reachable state there is at most one CONFIRMED booking per
\* (tenantId, sessionId, subjectId), however the creates for one subject
\* (HTTP, event, redelivered event) interleave.
C37_OneConfirmedPerSubject ==
    \A t \in Tenants, s \in SessionIds, u \in Subjects :
        Cardinality(ConfirmedOf(t, s, u)) <= 1

\* A create that finds a CONFIRMED booking of its subject at its duplicate
\* check does not send a transaction: the stored bookings stay as they are and
\* the create ends (409 over HTTP, the existing booking confirmed again on the
\* event path).
C37_DuplicateCheckStops ==
    [][ \A r \in Reqs :
          (/\ req[r].kind \in CreateKinds
           /\ req[r].pc = "existing"
           /\ req'[r].pc # "existing"
           /\ ~req'[r].fault
           /\ ConfirmedOf(req[r].tenantId, req[r].sessionId, req[r].subjectId) # {})
             => /\ req'[r].pc \in {"done", "emit"}
                /\ bookings' = bookings
                /\ summaries' = summaries ]_vars


\* The CONFIRMED bookings written with the given source ("api": POST
\* /bookings, "agent": the event worker).
ConfirmedFrom(source) ==
    { b \in BookingIds : /\ bookings[b] # NoItem
                         /\ bookings[b].status = "CONFIRMED"
                         /\ bookings[b].source = source }

\* The booking's sessionId is the id of a session the materializer produces
\* for its schedule: the schedule is stored, the date part is one of its
\* occurrence dates, and the id is generateSessionId of the two.
OnMaterializedSession(b) ==
    LET id == parseSessionId(bookings[b].sessionId)
        schedule == schedules[bookings[b].tenantId, id.scheduleId]
    IN  /\ schedule # NoItem
        /\ id.date \in schedule.occurs
        /\ bookings[b].sessionId = generateSessionId(id.scheduleId, id.date)

\* C39: every CONFIRMED booking created through POST /bookings refers to a
\* sessionId the materializer produces for its schedule (the date part is an
\* occurrence date); so a create for a stored schedule with a date that is
\* not an occurrence is rejected.
C39_HttpBookingsOnOccurrences ==
    \A b \in ConfirmedFrom("api") : OnMaterializedSession(b)

\* The bookings of the event worker, which materializes the date before it
\* books, are on occurrence dates of their schedule.
C39_EventBookingsOnOccurrences ==
    \A b \in ConfirmedFrom("agent") :
        LET id == parseSessionId(bookings[b].sessionId)
            schedule == schedules[bookings[b].tenantId, id.scheduleId]
        IN  schedule # NoItem /\ id.date \in schedule.occurs


\* The exceptions stored.
StoredExceptions == { exceptions[k] : k \in ExceptionKeys } \ {NoItem}

\* C36: every stored ScheduleException has type CANCELLED or OVERRIDE after
\* any sequence of POST and PATCH /exceptions, whatever type the request
\* bodies carry.
C36_StoredTypesValid ==
    \A e \in StoredExceptions : e.type \in ExceptionTypes

\* What the code keeps: every item a POST writes has a valid type, and each
\* Put stores the item the handler built.
C36_PostedTypesValid ==
    [][ \A r \in Reqs :
          (req[r].pc = "put" /\ req'[r].pc = "done")
            => /\ req[r].kind = "exception_post"
                    => req[r].sched.type \in ExceptionTypes
               /\ exceptions'[<<req[r].sched.pk, req[r].sched.occurrenceDate>>]
                    = req[r].sched ]_vars


\* An exception of the tenant with this scheduleId and occurrenceDate is
\* stored.
ExceptionOfTenant(tenantId, scheduleId, occurrenceDate) ==
    \E e \in StoredExceptions :
        /\ e.tenantId = tenantId
        /\ e.scheduleId = scheduleId
        /\ e.occurrenceDate = occurrenceDate

\* The attributes a PATCH must leave alone.
ProtectedFields == {"tenantId", "scheduleId", "occurrenceDate", "pk", "createdAt"}

\* The PATCH of task r gets the result of its Get in this step.
PatchReads(r) ==
    /\ req[r].kind = "idle"
    /\ req'[r].kind = "exception_patch"
    /\ req'[r].result.code # 400

\* A PATCH that finds an item builds its Put from it with tenantId,
\* scheduleId, occurrenceDate, pk and createdAt as stored, whatever the body
\* carries, and the Put stores that item under the key it was read from.
C40_PatchKeepsProtectedFields ==
    [][ \A r \in Reqs :
          /\ (PatchReads(r) /\ req'[r].pc = "put")
               => \E k \in ExceptionKeys :
                    /\ exceptions[k] # NoItem
                    /\ k = <<req'[r].sched.pk, req'[r].sched.occurrenceDate>>
                    /\ \A f \in ProtectedFields : req'[r].sched[f] = exceptions[k][f]
          /\ (req[r].kind = "exception_patch" /\ req[r].pc = "put" /\ req'[r].pc = "done")
               => /\ exceptions'[<<req[r].sched.pk, req[r].sched.occurrenceDate>>]
                       = req[r].sched
                  /\ \A k \in ExceptionKeys \ {<<req[r].sched.pk, req[r].sched.occurrenceDate>>} :
                       exceptions'[k] = exceptions[k] ]_vars

\* C40: a PATCH never changes the item's tenantId, its key fields
\* (scheduleId, occurrenceDate, pk) or its createdAt, whatever the body
\* contains; a PATCH for an id that does not exist in the tenant is answered
\* 404 and writes nothing.
C40_PatchFrame ==
    [][ \A r \in Reqs :
          /\ (PatchReads(r) /\ req'[r].pc = "put")
               => \E k \in ExceptionKeys :
                    /\ exceptions[k] # NoItem
                    /\ k = <<req'[r].sched.pk, req'[r].sched.occurrenceDate>>
                    /\ \A f \in ProtectedFields : req'[r].sched[f] = exceptions[k][f]
          /\ (/\ PatchReads(r)
              /\ ~ExceptionOfTenant(req'[r].tenantId,
                                    SubSeq(req'[r].sessionId, 1, Len(req'[r].sessionId) - 1),
                                    req'[r].sessionId[Len(req'[r].sessionId)]))
               => /\ req'[r].result = Result(404, "Exception not found")
                  /\ exceptions' = exceptions ]_vars

====
